---- MODULE Spec2Model ----
(***************************************************************************)
(* eXoSearch: the command bus (SafeQueue), the search engine's snapshots   *)
(* and worker, and the dispatcher (Application::io_worker) with the input  *)
(* loop (Application::run).                                                *)
(*                                                                         *)
(* Three state machines share this module:                                 *)
(*   SpecQueue   the SafeQueue primitive driven by several producers,      *)
(*               several consumers and one caller of shutdown();           *)
(*   Spec        the application: input loop, dispatcher, search worker;   *)
(*   SpecEngine  the search engine driven by a caller of update_query,     *)
(*               with the scheduling of its threads as fairness.           *)
(***************************************************************************)
EXTENDS Integers, Sequences, FiniteSets, TLC

\* ------------------------------------------------------------------------
\* Bounds of the queue harness
\* ------------------------------------------------------------------------
MaxPush == 1
MaxPops == MaxPush + 1

Producers == {"p1", "p2"}
Consumers == {"c1", "c2"}
PopOps == {"pop_timeout", "pop", "try_pop"}
NoThread == "none"
Empty == "nullopt"

VARIABLES
    queue_,      \* SafeQueue::queue_ : the items, front first
    mutex_,      \* SafeQueue::mutex_ : the thread that holds it, or NoThread
    qrunning_,   \* SafeQueue::running_
    cpc,         \* consumer -> position inside its pop call
    cop,         \* consumer -> the pop operation it is executing
    cleft,       \* consumer -> calls it may still make
    lastret,     \* history: what the latest pop call returned, and whether
                 \* running_ was already false then
    ppc,         \* producer -> position inside push / emplace
    pleft,       \* producer -> items it may still push
    spc,         \* position of the caller of shutdown()
    pushed,      \* history: the items in the order queue_.push took effect
    popped       \* history: the items in the order queue_.pop took effect

qvars == <<queue_, mutex_, qrunning_, cpc, cop, cleft, lastret, ppc, pleft, spc,
           pushed, popped>>

\* the state of the application: the engine's snapshots, the bus as the
\* application uses it, the three flows and the history variables
VARIABLES
    query_,          \* SearchEngine::query_ : [id, val], id numbers the allocation
    results_,        \* SearchEngine::results_ : [id, val]
    completions_,    \* SearchEngine::completions_ : [id, val]
    search_needed_,  \* SearchEngine::search_needed_
    bus,             \* Application::queue_ : the queued commands
    bus_running,     \* Application::queue_.running_
    running_,        \* Application::running_
    exit_code_,      \* Application::exit_code_
    state_,          \* Application::state_
    cached_height_,  \* DisplayManager::cached_height_
    app_query,       \* Application::query_ : the text buffer poll edits
    keys_left,       \* keystrokes the user may still type
    mpc,             \* input loop (Application::run): position
    m_cptr,          \* input loop: the completions pointer get_completion loaded
    m_qptr,          \* input loop: the query pointer get_query loaded
    retval,          \* what run() returned, <<>> before
    io_stop,         \* stop requested of the dispatcher's jthread
    search_stop,     \* stop requested of the search worker
    dpc,             \* dispatcher (Application::io_worker): position
    d_cmd,           \* dispatcher: the command being processed
    d_rptr,          \* dispatcher: the results pointer get_results loaded
    d_cptr,          \* dispatcher: the completions pointer get_completions loaded
    d_target,        \* dispatcher: handle_select's target_index
    d_code,          \* dispatcher: the exit code about to be stored
    wpc,             \* search worker: position
    w_qptr,          \* search worker: qptr
    w_q,             \* search worker: q, the copy of the query
    uaf,             \* history: kinds of snapshot read after they were freed
    writers,         \* history: per plain variable, the flows that wrote it
    frame,           \* history: what the latest render read and showed
    term,            \* history: exit codes of the terminating commands processed
    enters           \* history: the calls of handle_select, what each saw and did

evars == <<query_, results_, completions_, search_needed_>>
mvars == <<mpc, m_cptr, m_qptr, retval, keys_left>>
dvars == <<dpc, d_cmd, d_rptr, d_cptr, d_target, d_code>>
wvars == <<wpc, w_qptr, w_q>>
avars == <<query_, results_, completions_, search_needed_, bus, bus_running,
           running_, exit_code_, state_, cached_height_, app_query, keys_left,
           mpc, m_cptr, m_qptr, retval, io_stop, search_stop, dpc, d_cmd,
           d_rptr, d_cptr, d_target, d_code, wpc, w_qptr, w_q, uaf, writers,
           frame, term, enters>>
hvars == <<enters>>

\* one call of a function of the program, for the checks of the functions on
\* their own: the call with its arguments, and what it returned
VARIABLES
    call,            \* the function called and its arguments
    ret              \* <<value>> once the call has returned, <<>> before

pvars == <<call, ret>>

vars == <<qvars, avars, pvars>>

\* ------------------------------------------------------------------------
\* SafeQueue: the container operations and the wait predicate
\* ------------------------------------------------------------------------

\* queue_.push(item) / queue_.emplace(item)
QueuePush_front(q, item) == <<item>> \o q
QueuePush(q, item) == Append(q, item)

\* queue_.front()
QueueFront(q) == Head(q)

\* queue_.pop()
QueuePopFront_keep(q) == q
QueuePopFront(q) == Tail(q)

\* the predicate of cv_.wait / cv_.wait_for
WaitPredicate(q, running) == q # <<>> \/ ~running

\* what wait_for yields when the timeout expires: the predicate, re-evaluated
\* under the re-acquired lock
WaitForOnTimeout_norecheck(q, running) == FALSE
WaitForOnTimeout(q, running) == WaitPredicate(q, running)

\* ------------------------------------------------------------------------
\* SafeQueue as a state machine
\* ------------------------------------------------------------------------
QInit ==
    /\ queue_ = <<>>
    /\ mutex_ = NoThread
    /\ qrunning_ = TRUE
    /\ cpc = [c \in Consumers |-> "idle"]
    /\ cop = [c \in Consumers |-> "try_pop"]
    /\ cleft = [c \in Consumers |-> MaxPops]
    /\ lastret = [kind |-> "none", sd |-> FALSE]
    /\ ppc = [p \in Producers |-> "idle"]
    /\ pleft = [p \in Producers |-> MaxPush]
    /\ spc = "idle"
    /\ pushed = <<>>
    /\ popped = <<>>

\* push / emplace: std::scoped_lock lock(mutex_)
ProducerLock(p) ==
    /\ ppc[p] = "idle" /\ pleft[p] > 0 /\ mutex_ = NoThread
    /\ mutex_' = p
    /\ ppc' = [ppc EXCEPT ![p] = "push"]
    /\ UNCHANGED <<queue_, qrunning_, cpc, cop, cleft, lastret, pleft, spc, pushed, popped>>
    /\ UNCHANGED <<avars, pvars>>

\* push / emplace: queue_.push(item); the lock is released at the end of the scope
ProducerPush(p) ==
    /\ ppc[p] = "push"
    /\ LET item == <<p, pleft[p]>>
       IN /\ queue_' = QueuePush(queue_, item)
          /\ pushed' = Append(pushed, item)
    /\ mutex_' = NoThread
    /\ pleft' = [pleft EXCEPT ![p] = @ - 1]
    /\ ppc' = [ppc EXCEPT ![p] = "notify"]
    /\ UNCHANGED <<qrunning_, cpc, cop, cleft, lastret, spc, popped>>
    /\ UNCHANGED <<avars, pvars>>

\* push / emplace: cv_.notify_one() wakes one thread of the wait set, if any
ProducerNotify(p) ==
    /\ ppc[p] = "notify"
    /\ ppc' = [ppc EXCEPT ![p] = "idle"]
    /\ IF \E c \in Consumers : cpc[c] = "waiting"
       THEN \E c \in Consumers :
                /\ cpc[c] = "waiting"
                /\ cpc' = [cpc EXCEPT ![c] = "wake"]
       ELSE cpc' = cpc
    /\ UNCHANGED <<queue_, mutex_, qrunning_, cop, cleft, lastret, pleft, spc, pushed, popped>>
    /\ UNCHANGED <<avars, pvars>>

\* a consumer calls try_pop(), pop() or pop(timeout) and takes the lock
ConsumerLock(c, o) ==
    /\ cpc[c] = "idle" /\ cleft[c] > 0 /\ mutex_ = NoThread
    /\ mutex_' = c
    /\ cop' = [cop EXCEPT ![c] = o]
    /\ cpc' = [cpc EXCEPT ![c] = IF o = "try_pop" THEN "take" ELSE "check"]
    /\ UNCHANGED <<queue_, qrunning_, cleft, lastret, ppc, pleft, spc, pushed, popped>>
    /\ UNCHANGED <<avars, pvars>>

\* cv_.wait / cv_.wait_for evaluate the predicate while holding the lock
ConsumerCheck(c) ==
    /\ cpc[c] = "check"
    /\ cpc' = [cpc EXCEPT ![c] = IF WaitPredicate(queue_, qrunning_)
                                 THEN "take" ELSE "block"]
    /\ UNCHANGED <<queue_, mutex_, qrunning_, cop, cleft, lastret, ppc, pleft, spc, pushed, popped>>
    /\ UNCHANGED <<avars, pvars>>

\* the predicate was false: the wait releases the lock and joins the wait set
ConsumerBlock(c) ==
    /\ cpc[c] = "block"
    /\ mutex_' = NoThread
    /\ cpc' = [cpc EXCEPT ![c] = "waiting"]
    /\ UNCHANGED <<queue_, qrunning_, cop, cleft, lastret, ppc, pleft, spc, pushed, popped>>
    /\ UNCHANGED <<avars, pvars>>

\* a condition variable may wake a waiter without any notification
ConsumerSpurious(c) ==
    /\ cpc[c] = "waiting"
    /\ cpc' = [cpc EXCEPT ![c] = "wake"]
    /\ UNCHANGED <<queue_, mutex_, qrunning_, cop, cleft, lastret, ppc, pleft, spc, pushed, popped>>
    /\ UNCHANGED <<avars, pvars>>

\* pop(timeout): the timeout of wait_for expires
ConsumerTimeout(c) ==
    /\ cpc[c] = "waiting" /\ cop[c] = "pop_timeout"
    /\ cpc' = [cpc EXCEPT ![c] = "twake"]
    /\ UNCHANGED <<queue_, mutex_, qrunning_, cop, cleft, lastret, ppc, pleft, spc, pushed, popped>>
    /\ UNCHANGED <<avars, pvars>>

\* a woken waiter re-acquires the lock before the wait returns
ConsumerReacquire(c) ==
    /\ cpc[c] \in {"wake", "twake"} /\ mutex_ = NoThread
    /\ mutex_' = c
    /\ cpc' = [cpc EXCEPT ![c] = IF cpc[c] = "wake" THEN "check" ELSE "tcheck"]
    /\ UNCHANGED <<queue_, qrunning_, cop, cleft, lastret, ppc, pleft, spc, pushed, popped>>
    /\ UNCHANGED <<avars, pvars>>

\* pop(timeout): wait_for timed out; it returns the predicate, and pop returns
\* nullopt when that is false
ConsumerTimedOut(c) ==
    /\ cpc[c] = "tcheck"
    /\ IF WaitForOnTimeout(queue_, qrunning_)
       THEN /\ cpc' = [cpc EXCEPT ![c] = "take"]
            /\ UNCHANGED <<mutex_, cleft, lastret, cop>>
       ELSE /\ cpc' = [cpc EXCEPT ![c] = "idle"]
            /\ mutex_' = NoThread
            /\ cleft' = [cleft EXCEPT ![c] = @ - 1]
            /\ cop' = [cop EXCEPT ![c] = "try_pop"]
            /\ lastret' = [kind |-> Empty, sd |-> ~qrunning_]
    /\ UNCHANGED <<queue_, qrunning_, ppc, pleft, spc, pushed, popped>>
    /\ UNCHANGED <<avars, pvars>>

\* if (queue_.empty()) return nullopt; item = front(); queue_.pop(); return item
ConsumerTake(c) ==
    /\ cpc[c] = "take"
    /\ IF queue_ = <<>>
       THEN /\ lastret' = [kind |-> Empty, sd |-> ~qrunning_]
            /\ UNCHANGED <<queue_, popped>>
       ELSE /\ lastret' = [kind |-> "item", sd |-> ~qrunning_]
            /\ popped' = Append(popped, QueueFront(queue_))
            /\ queue_' = QueuePopFront(queue_)
    /\ mutex_' = NoThread
    /\ cleft' = [cleft EXCEPT ![c] = @ - 1]
    /\ cpc' = [cpc EXCEPT ![c] = "idle"]
    /\ cop' = [cop EXCEPT ![c] = "try_pop"]
    /\ UNCHANGED <<qrunning_, ppc, pleft, spc, pushed>>
    /\ UNCHANGED <<avars, pvars>>

\* shutdown(): running_.store(false), without taking mutex_
ShutdownStore ==
    /\ spc = "idle"
    /\ qrunning_' = FALSE
    /\ spc' = "notify"
    /\ UNCHANGED <<queue_, mutex_, cpc, cop, cleft, lastret, ppc, pleft, pushed, popped>>
    /\ UNCHANGED <<avars, pvars>>

\* shutdown(): cv_.notify_all() wakes every thread that is in the wait set now
ShutdownNotify ==
    /\ spc = "notify"
    /\ spc' = "done"
    /\ cpc' = [c \in Consumers |-> IF cpc[c] = "waiting" THEN "wake" ELSE cpc[c]]
    /\ UNCHANGED <<queue_, mutex_, qrunning_, cop, cleft, lastret, ppc, pleft, pushed, popped>>
    /\ UNCHANGED <<avars, pvars>>

QNext ==
    \/ \E p \in Producers : ProducerLock(p) \/ ProducerPush(p) \/ ProducerNotify(p)
    \/ \E c \in Consumers : \E o \in PopOps : ConsumerLock(c, o)
    \/ \E c \in Consumers : ConsumerCheck(c) \/ ConsumerBlock(c) \/ ConsumerSpurious(c)
    \/ \E c \in Consumers : ConsumerTimeout(c) \/ ConsumerReacquire(c)
    \/ \E c \in Consumers : ConsumerTimedOut(c) \/ ConsumerTake(c)
    \/ ShutdownStore
    \/ ShutdownNotify

\* ------------------------------------------------------------------------
\* Strings: a std::string is a sequence of one-character strings
\* ------------------------------------------------------------------------
LowerChars == <<"a","b","c","d","e","f","g","h","i","j","k","l","m",
                "n","o","p","q","r","s","t","u","v","w","x","y","z">>
UpperChars == <<"A","B","C","D","E","F","G","H","I","J","K","L","M",
                "N","O","P","Q","R","S","T","U","V","W","X","Y","Z">>
DigitChars == <<"0","1","2","3","4","5","6","7","8","9">>
\* the other characters of the model, each with its ASCII code
OtherChars == <<<<"\t", 9>>, <<" ", 32>>, <<"!", 33>>, <<"'", 39>>, <<"-", 45>>,
                <<".", 46>>, <<":", 58>>, <<"_", 95>>>>

Range(f) == {f[i] : i \in DOMAIN f}
IndexIn(seq, c) == CHOOSE i \in 1..Len(seq) : seq[i] = c
MinOf(S) == CHOOSE x \in S : \A y \in S : x <= y
MaxOf(S) == CHOOSE x \in S : \A y \in S : y <= x

IsUpper(c) == c \in Range(UpperChars)
IsLower(c) == c \in Range(LowerChars)
IsDigit(c) == c \in Range(DigitChars)

\* std::isalnum in the C locale
IsAlnum(c) == IsUpper(c) \/ IsLower(c) \/ IsDigit(c)

\* the whitespace operator>> skips
IsSpace(c) == c \in {" ", "\t"}

\* the value of the character as unsigned char (std::string comparison)
Ord(c) ==
    IF IsLower(c) THEN 96 + IndexIn(LowerChars, c)
    ELSE IF IsUpper(c) THEN 64 + IndexIn(UpperChars, c)
    ELSE IF IsDigit(c) THEN 47 + IndexIn(DigitChars, c)
    ELSE (CHOOSE e \in Range(OtherChars) : e[1] = c)[2]

\* std::tolower in the C locale
ToLowerChar(c) == IF IsUpper(c) THEN LowerChars[IndexIn(UpperChars, c)] ELSE c

\* Util::to_lower
to_lower(str) == [i \in 1..Len(str) |-> ToLowerChar(str[i])]

\* a comparison that puts the greater string first
StrLess_descending(a, b) ==
    \E k \in 1..(Len(b) + 1) :
        /\ k <= Len(a)
        /\ \A i \in 1..(k - 1) : a[i] = b[i]
        /\ (k <= Len(b) => Ord(b[k]) < Ord(a[k]))

\* operator< of std::string: lexicographic by character value
StrLess(a, b) ==
    \E k \in 1..(Len(a) + 1) :
        /\ k <= Len(b)
        /\ \A i \in 1..(k - 1) : a[i] = b[i]
        /\ (k <= Len(a) => Ord(a[k]) < Ord(b[k]))

\* std::string::starts_with
starts_with(str, pre) == Len(pre) <= Len(str) /\ SubSeq(str, 1, Len(pre)) = pre

npos == -1

\* std::string::find(w, pos): the first 0-based position >= pos at which w
\* occurs, or npos
find(str, w, pos) ==
    LET at == {i \in pos..(Len(str) - Len(w)) : SubSeq(str, i + 1, i + Len(w)) = w}
    IN IF at = {} THEN npos ELSE MinOf(at)

\* std::string::find_last_of(" \t"), as a 1-based position, 0 when there is none
find_last_space(str) ==
    LET at == {i \in 1..Len(str) : str[i] \in {" ", "\t"}}
    IN IF at = {} THEN 0 ELSE MaxOf(at)

\* the words operator>> extracts: the maximal runs of non-whitespace
RECURSIVE SplitWords(_, _, _)
SplitWords(str, i, cur) ==
    IF i > Len(str) THEN (IF cur = <<>> THEN <<>> ELSE <<cur>>)
    ELSE IF IsSpace(str[i])
         THEN (IF cur = <<>> THEN <<>> ELSE <<cur>>) \o SplitWords(str, i + 1, <<>>)
         ELSE SplitWords(str, i + 1, Append(cur, str[i]))

\* Util::tokenize: split on whitespace, strip the non-alphanumerics of each
\* word, lowercase, drop the empty ones
NonEmptyStr(w) == w # <<>>
\* a tokenizer that keeps the non-alphanumeric characters
tokenize_nostrip(text) ==
    LET ws == SplitWords(text, 1, <<>>)
    IN [i \in 1..Len(ws) |-> to_lower(ws[i])]
tokenize(text) ==
    LET ws == SplitWords(text, 1, <<>>)
        cleaned == [i \in 1..Len(ws) |-> to_lower(SelectSeq(ws[i], IsAlnum))]
    IN SelectSeq(cleaned, NonEmptyStr)

\* ------------------------------------------------------------------------
\* Search engine: scoring, ranking and completion (pure functions)
\* ------------------------------------------------------------------------
SequentialKey == 5000
SequentialContent == 3000
KeyPrefix == 2000
KeyContains == 1000
WordPrefix == 100
WordContains == 50
Content == 10
Default == 1
None == 0
MaxResults == 10000

\* an Entry as XMLParser::parse_games builds it: words = tokenize(content)
MkEntry(key, content) ==
    [key |-> key, content |-> content, words |-> tokenize(content)]

\* SearchEngine::has_sequential_match: the loop over words, from position pos
RECURSIVE SequentialFrom(_, _, _, _)
SequentialFrom(lower, words, k, pos) ==
    IF k > Len(words) THEN TRUE
    ELSE LET at == find(lower, words[k], pos)
         IN IF at = npos THEN FALSE
            ELSE SequentialFrom(lower, words, k + 1, at + Len(words[k]))

\* a match that takes the words in any order and lets them overlap
has_sequential_match_anyorder(text, words) ==
    words # <<>> /\ \A k \in 1..Len(words) : find(to_lower(text), words[k], 0) # npos

has_sequential_match(text, words) ==
    IF words = <<>> THEN FALSE
    ELSE SequentialFrom(to_lower(text), words, 1, 0)

Max2(a, b) == IF a >= b THEN a ELSE b
Min2(a, b) == IF a <= b THEN a ELSE b

\* a per-word score that adds up the tiers instead of keeping the highest
WordScore_sum(entry, qword) ==
    (IF starts_with(to_lower(entry.key), qword) THEN KeyPrefix
     ELSE IF find(to_lower(entry.key), qword, 0) # npos THEN KeyContains
     ELSE None)
    + (IF \E i \in 1..Len(entry.words) : starts_with(entry.words[i], qword)
       THEN WordPrefix ELSE None)
    + (IF find(to_lower(entry.content), qword, 0) # npos THEN Content ELSE None)

\* SearchEngine::score, the body of the per-word loop: the score of one query
\* word
WordScore(entry, qword) ==
    LET lower_key == to_lower(entry.key)
        lower_content == to_lower(entry.content)
        key_score == IF starts_with(lower_key, qword) THEN KeyPrefix
                     ELSE IF find(lower_key, qword, 0) # npos THEN KeyContains
                     ELSE None
        word_prefix == IF \E i \in 1..Len(entry.words) :
                              starts_with(entry.words[i], qword)
                       THEN WordPrefix ELSE None
        word_contains == IF \E i \in 1..Len(entry.words) :
                                /\ ~starts_with(entry.words[i], qword)
                                /\ find(entry.words[i], qword, 0) # npos
                         THEN WordContains ELSE None
        content_score == IF find(lower_content, qword, 0) # npos
                         THEN Content ELSE None
    IN Max2(Max2(key_score, word_prefix), Max2(word_contains, content_score))

RECURSIVE SumWordScores(_, _, _)
SumWordScores(entry, query_words, k) ==
    IF k > Len(query_words) THEN 0
    ELSE WordScore(entry, query_words[k]) + SumWordScores(entry, query_words, k + 1)

\* a score without the early return for a word that matched nothing
score_anyword(entry, query) ==
    LET query_words == tokenize(query)
    IN IF query_words = <<>> THEN Default
       ELSE (IF Len(query_words) > 1
             THEN IF has_sequential_match(entry.key, query_words)
                  THEN SequentialKey
                  ELSE IF has_sequential_match(entry.content, query_words)
                       THEN SequentialContent
                       ELSE None
             ELSE None)
            + SumWordScores(entry, query_words, 1)

\* SearchEngine::score
score(entry, query) ==
    IF query = <<>> THEN Default
    ELSE LET query_words == tokenize(query)
         IN IF query_words = <<>> THEN Default
            ELSE LET bonus ==
                         IF Len(query_words) > 1
                         THEN IF has_sequential_match(entry.key, query_words)
                              THEN SequentialKey
                              ELSE IF has_sequential_match(entry.content, query_words)
                                   THEN SequentialContent
                                   ELSE None
                         ELSE None
                 IN IF \E k \in 1..Len(query_words) :
                           WordScore(entry, query_words[k]) = None
                    THEN None
                    ELSE bonus + SumWordScores(entry, query_words, 1)

\* a comparator that puts the lower score first
ResultBefore_ascending(entries, a, b) ==
    IF a.score # b.score THEN a.score < b.score
    ELSE StrLess(entries[a.index + 1].content, entries[b.index + 1].content)

\* the comparator of the sort in search_worker: higher score first, then
\* smaller content first
ResultBefore(entries, a, b) ==
    IF a.score # b.score THEN a.score > b.score
    ELSE StrLess(entries[a.index + 1].content, entries[b.index + 1].content)

\* std::ranges::sort with that comparator
RECURSIVE InsertSorted(_, _, _)
InsertSorted(entries, sorted, x) ==
    IF sorted = <<>> THEN <<x>>
    ELSE IF ResultBefore(entries, x, Head(sorted))
         THEN <<x>> \o sorted
         ELSE <<Head(sorted)>> \o InsertSorted(entries, Tail(sorted), x)

RECURSIVE SortResults(_, _)
SortResults(entries, rs) ==
    IF rs = <<>> THEN <<>>
    ELSE InsertSorted(entries, SortResults(entries, Tail(rs)), Head(rs))

\* what std::ranges::sort may leave for rows the comparator does not order
\* (equal score and equal content): sorted is one outcome, and so is every
\* permutation of it in which no row is before a row that must precede it
SortOutcomes(entries, sorted) ==
    LET n == Len(sorted)
        arranged == {[i \in 1..n |-> sorted[p[i]]] : p \in Permutations(1..n)}
    IN {rs \in arranged :
           \A i \in 1..(n - 1) : ~ResultBefore(entries, rs[i + 1], rs[i])}

\* search_worker: score every entry, keep score > None, sort
RankAll(entries, q) ==
    LET all == [i \in 1..Len(entries) |->
                   [index |-> i - 1, score |-> score(entries[i], q)]]
        Matching(r) == r.score > None
    IN SortResults(entries, SelectSeq(all, Matching))

\* a truncation that keeps the last rows
TruncateResults_tail(rs, limit) ==
    IF Len(rs) > limit THEN SubSeq(rs, Len(rs) - limit + 1, Len(rs)) ELSE rs

\* search_worker: if (new_results->size() > limit) new_results->resize(limit),
\* limit being Display::MaxResults
TruncateResults(rs, limit) ==
    IF Len(rs) > limit THEN SubSeq(rs, 1, limit) ELSE rs

\* search_worker: score every entry, keep score > None, sort, truncate
ComputeResults(entries, q) == TruncateResults(RankAll(entries, q), MaxResults)

\* a std::set<std::string> read from begin() to end(): ascending
RECURSIVE SortStrings(_)
SortStrings(S) ==
    IF S = {} THEN <<>>
    ELSE LET least == CHOOSE x \in S : \A y \in S : y = x \/ StrLess(x, y)
         IN <<least>> \o SortStrings(S \ {least})

\* the word being completed: what follows the last space or tab of the query
LastWord(q) == SubSeq(q, find_last_space(q) + 1, Len(q))
PrefixBeforeWord(q) == SubSeq(q, 1, find_last_space(q))

\* SearchEngine::find_completions
find_completions(entries, query) ==
    IF query = <<>> \/ entries = <<>> THEN <<>>
    ELSE LET word == LastWord(query)
             lower_word == to_lower(word)
             Candidate(c) ==
                 /\ c # <<>>
                 /\ starts_with(to_lower(c), lower_word)
                 /\ Len(c) > Len(word)
             all == {entries[i].key : i \in 1..Len(entries)}
                    \cup UNION {Range(entries[i].words) : i \in 1..Len(entries)}
         IN IF word = <<>> THEN <<>>
            ELSE SortStrings({c \in all : Candidate(c)})

\* SearchEngine::get_completion, the loop: cut comp to its case-insensitive
\* common prefix with each further candidate
RECURSIVE CommonPrefix(_, _, _)
CommonPrefix(comp, comps, i) ==
    IF i > Len(comps) \/ comp = <<>> THEN comp
    ELSE IF comps[i] = <<>> THEN CommonPrefix(comp, comps, i + 1)
    ELSE LET lower_comp == to_lower(comp)
             lower_cand == to_lower(comps[i])
             max_len == Min2(Len(lower_comp), Len(lower_cand))
             match_len == MaxOf({n \in 0..max_len :
                                   \A j \in 1..n : lower_comp[j] = lower_cand[j]})
         IN CommonPrefix(IF match_len < Len(comp) THEN SubSeq(comp, 1, match_len)
                         ELSE comp, comps, i + 1)

\* std::optional<T>: <<>> is std::nullopt, <<v>> holds v
Nullopt == <<>>
Some(v) == <<v>>

\* a get_completion that returns the common prefix without testing it against
\* the last word
get_completion_untested(comps, q) ==
    IF comps = <<>> \/ q = <<>> THEN Nullopt
    ELSE LET comp == CommonPrefix(comps[1], comps, 2)
         IN IF LastWord(q) = <<>> \/ comp = <<>> THEN Nullopt
            ELSE Some(PrefixBeforeWord(q) \o comp)

\* SearchEngine::get_completion, given the completions snapshot and the query
\* it reads
get_completion(comps, q) ==
    IF comps = <<>> \/ q = <<>> THEN Nullopt
    ELSE LET word == LastWord(q)
             comp == CommonPrefix(comps[1], comps, 2)
         IN IF word = <<>> \/ comps[1] = <<>> THEN Nullopt
            ELSE IF /\ comp # <<>>
                    /\ starts_with(to_lower(comp), to_lower(word))
                    /\ Len(comp) > Len(word)
                 THEN Some(PrefixBeforeWord(q) \o comp)
                 ELSE Nullopt

\* ------------------------------------------------------------------------
\* Commands (command_t.h) and exit codes
\* ------------------------------------------------------------------------
ExitSuccess == 0
ExitError == 1
MaxExitCode == 255

NoCommand == [type |-> "none"]
\* gen is history: the number of the recompute that enqueued the command
RefreshDisplay(scroll_offset, selected_index, gen) ==
    [type |-> "RefreshDisplay", scroll_offset |-> scroll_offset,
     selected_index |-> selected_index, gen |-> gen]
UpdateQuery(q) == [type |-> "UpdateQuery", query |-> q]
MoveSelection(delta) == [type |-> "MoveSelection", delta |-> delta]
PageScroll(up) == [type |-> "PageScroll", up |-> up]
SelectResult(index) == [type |-> "SelectResult", index |-> index]
Exit(code) == [type |-> "Exit", code |-> code]

\* ------------------------------------------------------------------------
\* Input decoder: InputHandler::poll as a function of the bytes that are (or
\* arrive within the read timeouts) in the terminal buffer, the query buffer
\* and the completion the engine offers.  A byte is a one-character string,
\* or the name of a control code.
\* ------------------------------------------------------------------------
PrintableBytes ==
    Range(LowerChars) \cup Range(UpperChars) \cup Range(DigitChars)
        \cup {" ", "!", "'", "-", ".", ":", "_", "[", "~"}

PollResult(cmd, q, rest) == [cmd |-> cmd, query |-> q, rest |-> rest]

\* an ESC branch that leaves the bytes behind a recognized arrow or page
\* sequence in the terminal buffer
PollEscape_noflush(input, q) ==
    IF input = <<>> THEN PollResult(Exit(ExitSuccess), q, <<>>)
    ELSE IF input[1] # "[" THEN PollResult(NoCommand, q, <<>>)
    ELSE IF Len(input) < 2 THEN PollResult(NoCommand, q, <<>>)
    ELSE IF input[2] = "A"
         THEN PollResult(MoveSelection(-1), q, SubSeq(input, 3, Len(input)))
    ELSE IF input[2] = "B"
         THEN PollResult(MoveSelection(1), q, SubSeq(input, 3, Len(input)))
    ELSE IF input[2] \in {"5", "6"}
         THEN IF Len(input) >= 3 /\ input[3] = "~"
              THEN PollResult(PageScroll(input[2] = "5"), q,
                              SubSeq(input, 4, Len(input)))
              ELSE PollResult(NoCommand, q,
                              IF Len(input) >= 3 THEN SubSeq(input, 4, Len(input))
                              ELSE <<>>)
    ELSE PollResult(NoCommand, q, SubSeq(input, 3, Len(input)))

\* the ESC branch of poll: input holds the bytes after ESC; read_timeout
\* yields -1 when no byte is left
PollEscape(input, q) ==
    IF input = <<>> THEN PollResult(Exit(ExitSuccess), q, <<>>)
    ELSE IF input[1] # "[" THEN PollResult(NoCommand, q, <<>>)
    ELSE IF Len(input) < 2 THEN PollResult(NoCommand, q, <<>>)
    ELSE IF input[2] = "A" THEN PollResult(MoveSelection(-1), q, <<>>)
    ELSE IF input[2] = "B" THEN PollResult(MoveSelection(1), q, <<>>)
    ELSE IF input[2] \in {"5", "6"}
         THEN IF Len(input) >= 3 /\ input[3] = "~"
              THEN PollResult(PageScroll(input[2] = "5"), q, <<>>)
              ELSE PollResult(NoCommand, q,
                              IF Len(input) >= 3 THEN SubSeq(input, 4, Len(input))
                              ELSE <<>>)
    ELSE PollResult(NoCommand, q, SubSeq(input, 3, Len(input)))

\* a poll whose backspace emits UpdateQuery even on an empty query
poll_eager(input, q, completion) ==
    IF input = <<>> THEN PollResult(NoCommand, q, <<>>)
    ELSE LET c == Head(input)
             rest == Tail(input)
         IN IF c = "ETX" THEN PollResult(Exit(ExitSuccess), q, rest)
            ELSE IF c = "TAB"
                 THEN IF completion # Nullopt
                      THEN PollResult(UpdateQuery(completion[1]), completion[1], rest)
                      ELSE PollResult(NoCommand, q, rest)
            ELSE IF c \in {"DEL", "BS"}
                 THEN PollResult(UpdateQuery(SubSeq(q, 1, Len(q) - 1)),
                                 SubSeq(q, 1, Len(q) - 1), rest)
            ELSE IF c \in {"CR", "LF"} THEN PollResult(SelectResult(-1), q, rest)
            ELSE IF c = "ESC" THEN PollEscape(rest, q)
            ELSE IF c \in PrintableBytes
                 THEN PollResult(UpdateQuery(Append(q, c)), Append(q, c), rest)
            ELSE PollResult(NoCommand, q, rest)

\* InputHandler::poll
poll(input, q, completion) ==
    IF input = <<>> THEN PollResult(NoCommand, q, <<>>)
    ELSE LET c == Head(input)
             rest == Tail(input)
         IN IF c = "ETX" THEN PollResult(Exit(ExitSuccess), q, rest)
            ELSE IF c = "TAB"
                 THEN IF completion # Nullopt
                      THEN PollResult(UpdateQuery(completion[1]), completion[1], rest)
                      ELSE PollResult(NoCommand, q, rest)
            ELSE IF c \in {"DEL", "BS"}
                 THEN IF q # <<>>
                      THEN PollResult(UpdateQuery(SubSeq(q, 1, Len(q) - 1)),
                                      SubSeq(q, 1, Len(q) - 1), rest)
                      ELSE PollResult(NoCommand, q, rest)
            ELSE IF c \in {"CR", "LF"} THEN PollResult(SelectResult(-1), q, rest)
            ELSE IF c = "ESC" THEN PollEscape(rest, q)
            ELSE IF c \in PrintableBytes
                 THEN PollResult(UpdateQuery(Append(q, c)), Append(q, c), rest)
            ELSE PollResult(NoCommand, q, rest)

\* ------------------------------------------------------------------------
\* Viewport: DisplayManager::measure_display and the dispatcher's handlers as
\* functions of the DisplayState and the results they read
\* ------------------------------------------------------------------------
MinLinesPerResult == 3
MinVisibleResults == 2
HeaderLines == 3
MinFooterLines == 3

\* DisplayMetrics{} / DisplayState{}
InitialMetrics ==
    [terminal_height |-> 0, header_lines |-> 0, footer_lines |-> 0,
     available_lines |-> 0, lines_per_result |-> MinLinesPerResult,
     max_visible_results |-> 0, dirty |-> TRUE]
InitialState ==
    [scroll_offset |-> 0, selected_index |-> -1, metrics |-> InitialMetrics,
     last_terminal_height |-> 0]

\* a measure without the floor of MinVisibleResults
measure_display_nofloor(old_metrics, current_height) ==
    LET used == HeaderLines + MinFooterLines
        available == IF current_height > used THEN current_height - used ELSE 0
    IN [terminal_height |-> current_height, header_lines |-> HeaderLines,
        footer_lines |-> MinFooterLines, available_lines |-> available,
        lines_per_result |-> MinLinesPerResult,
        max_visible_results |-> available \div MinLinesPerResult, dirty |-> FALSE]

\* DisplayManager::measure_display, given the height the cache returned
measure_display(old_metrics, current_height) ==
    LET min_space == MinVisibleResults * MinLinesPerResult
        used == HeaderLines + MinFooterLines
    IN IF /\ ~old_metrics.dirty
          /\ old_metrics.terminal_height = current_height
          /\ current_height > 0
       THEN old_metrics
       ELSE IF current_height > MinFooterLines + HeaderLines + min_space
       THEN LET available == IF current_height > used THEN current_height - used
                             ELSE min_space
                visible == available \div MinLinesPerResult
            IN [terminal_height |-> current_height, header_lines |-> HeaderLines,
                footer_lines |-> MinFooterLines, available_lines |-> available,
                lines_per_result |-> MinLinesPerResult,
                max_visible_results |-> IF visible < MinVisibleResults
                                        THEN MinVisibleResults ELSE visible,
                dirty |-> FALSE]
       ELSE [terminal_height |-> current_height, header_lines |-> HeaderLines,
             footer_lines |-> MinFooterLines, available_lines |-> min_space,
             lines_per_result |-> MinLinesPerResult,
             max_visible_results |-> MinVisibleResults, dirty |-> FALSE]

\* std::clamp
Clamp(v, lo, hi) == IF v < lo THEN lo ELSE IF v > hi THEN hi ELSE v

\* the scroll adjustment shared by handle_move and handle_page_scroll
KeepVisible(scroll_offset, selected, max_visible) ==
    IF selected < scroll_offset THEN selected
    ELSE IF selected >= scroll_offset + max_visible THEN selected - max_visible + 1
    ELSE scroll_offset

\* a handle_move that scrolls to the selection on every move
handle_move_follow(st, results, delta) ==
    LET result_count == Len(results)
        selected == IF st.selected_index < 0 THEN 0
                    ELSE Clamp(st.selected_index + delta, 0, result_count - 1)
        max_visible == st.metrics.max_visible_results
    IN [st EXCEPT !.selected_index = selected,
                  !.scroll_offset = IF max_visible > 0 THEN selected
                                    ELSE st.scroll_offset]

\* Application::handle_move up to the render, for non-empty results
handle_move(st, results, delta) ==
    LET result_count == Len(results)
        selected == IF st.selected_index < 0 THEN 0
                    ELSE Clamp(st.selected_index + delta, 0, result_count - 1)
        max_visible == st.metrics.max_visible_results
    IN [st EXCEPT !.selected_index = selected,
                  !.scroll_offset = IF max_visible > 0
                                    THEN KeepVisible(st.scroll_offset, selected, max_visible)
                                    ELSE st.scroll_offset]

\* Application::handle_page_scroll up to the render, for non-empty results and
\* max_visible > 0
handle_page_scroll(st, results, up) ==
    LET result_count == Len(results)
        max_visible == st.metrics.max_visible_results
        page_size == Max2(1, max_visible - 1)
        selected == IF up THEN Max2(0, st.selected_index - page_size)
                    ELSE Min2(st.selected_index + page_size, result_count - 1)
    IN [st EXCEPT !.selected_index = selected,
                  !.scroll_offset = KeepVisible(st.scroll_offset, selected, max_visible)]

\* DisplayManager::render: display_count = std::min(max_visible_results,
\* results.size() - scroll_offset) in size_t; a difference below zero wraps
\* to a value near 2^64, above every max_visible_results
render_display_count(max_visible, result_count, scroll_offset) ==
    IF result_count >= scroll_offset
    THEN Min2(max_visible, result_count - scroll_offset)
    ELSE max_visible

\* DisplayManager::render_footer: "Showing first-last of total results"
render_footer(scroll_offset, display_count, total_results) ==
    [first |-> scroll_offset + 1, last |-> scroll_offset + display_count,
     total |-> total_results]

\* a select that returns the rank row instead of the corpus index
select_rank(entries, results, index) ==
    IF index >= 0 /\ index < Len(results)
    THEN Some(Min2(index, MaxExitCode))
    ELSE Nullopt

\* a select that takes the nearest row for an index outside the results
select_nearest(entries, results, index) ==
    IF results = <<>> THEN Nullopt
    ELSE Some(Min2(results[Clamp(index, 0, Len(results) - 1) + 1].index,
                   MaxExitCode))

\* DisplayManager::select, given the results it copied: the exit code, or
\* nullopt
select(entries, results, index) ==
    IF /\ index >= 0
       /\ index < Len(results)
       /\ results[index + 1].index < Len(entries)
    THEN Some(Min2(results[index + 1].index, MaxExitCode))
    ELSE Nullopt

\* ------------------------------------------------------------------------
\* The application: bounds, corpus and environment
\* ------------------------------------------------------------------------
\* keystrokes the input loop reads in one session
MaxKeys == 2

S1(a) == <<a>>
S2(a, b) == <<a, b>>

\* the corpus handed to the engine: three records with distinct contents
Entries ==
    <<MkEntry(S1("a"), S1("a")), MkEntry(S2("a", "b"), S2("a", "b")),
      MkEntry(S1("c"), S1("c"))>>

\* what one keystroke puts into the terminal buffer
KeyCtrlC == <<"ETX">>
KeyTab == <<"TAB">>
KeyBackspace == <<"DEL">>
KeyEnter == <<"CR">>
KeyEscape == <<"ESC">>
KeyUp == <<"ESC", "[", "A">>
KeyDown == <<"ESC", "[", "B">>
KeyPageUp == <<"ESC", "[", "5", "~">>
KeyPageDown == <<"ESC", "[", "6", "~">>
Keystrokes ==
    {KeyCtrlC, KeyTab, KeyBackspace, KeyEnter, KeyEscape, KeyUp, KeyDown,
     KeyPageUp, KeyPageDown, S1("a"), S1("c"), S1("z")}

\* the heights Util::terminal_height may report
Heights == {9, 15}

\* what a read of a freed snapshot may yield besides the stale contents
GarbageQueries == {S1("!")}
GarbageResults == {<<>>, ComputeResults(Entries, <<>>)}
GarbageCompletions == {<<S2("b", "a")>>}

\* the texts a caller of the engine alone passes to update_query
QueryTexts == {<<>>, S1("a"), S1("z"), S2("a", "b")}

\* the recompute of search_worker, tabulated once for the texts that occur
\* most; Ranking(q) and Candidates(q) are ComputeResults(Entries, q) and
\* find_completions(Entries, q) for every q
TabulatedTexts ==
    QueryTexts \cup GarbageQueries \cup {S1("c")}
        \cup {S2(x, y) : x, y \in {"a", "c", "z"}}
RankingTable == [q \in TabulatedTexts |-> ComputeResults(Entries, q)]
CandidatesTable == [q \in TabulatedTexts |-> find_completions(Entries, q)]
Ranking(q) ==
    IF q \in TabulatedTexts THEN RankingTable[q] ELSE ComputeResults(Entries, q)
Candidates(q) ==
    IF q \in TabulatedTexts THEN CandidatesTable[q] ELSE find_completions(Entries, q)

NullPtr == [id |-> 0, val |-> <<>>]
NoFrame ==
    [cmd |-> "none", gen |-> 0, rid |-> 0, torn |-> FALSE, count |-> 0,
     rows |-> <<>>]

\* the state after Application's construction (SearchEngine's constructor
\* allocates three empty snapshots)
AInitKeys(keys) ==
    /\ query_ = [id |-> 1, val |-> <<>>]
    /\ results_ = [id |-> 1, val |-> <<>>]
    /\ completions_ = [id |-> 1, val |-> <<>>]
    /\ search_needed_ = FALSE
    /\ bus = <<>>
    /\ bus_running = TRUE
    /\ running_ = TRUE
    /\ exit_code_ = ExitSuccess
    /\ state_ = InitialState
    /\ cached_height_ = 0
    /\ app_query = <<>>
    /\ keys_left = keys
    /\ mpc = "start"
    /\ m_cptr = NullPtr
    /\ m_qptr = NullPtr
    /\ retval = <<>>
    /\ io_stop = FALSE
    /\ search_stop = FALSE
    /\ dpc = "notstarted"
    /\ d_cmd = NoCommand
    /\ d_rptr = NullPtr
    /\ d_cptr = NullPtr
    /\ d_target = -1
    /\ d_code = 0
    /\ wpc = "notstarted"
    /\ w_qptr = NullPtr
    /\ w_q = <<>>
    /\ uaf = {}
    /\ writers = [v \in {"query_buffer", "state_", "cached_height_"} |-> {}]
    /\ frame = NoFrame
    /\ term = <<>>
    /\ enters = <<>>

AInit == AInitKeys(MaxKeys)

\* ---- reads of the atomically swapped snapshots ----

\* what dereferencing a loaded pointer yields: the object when it is still the
\* published one; after the writer's delete, the stale bytes or garbage
ReadOf(ptr, current, garbage) ==
    IF ptr.id = current.id THEN {ptr.val} ELSE {ptr.val} \cup garbage

\* the history variable uaf after a dereference of ptr
Deref(seen, kind, ptr, current) ==
    IF ptr.id = current.id THEN seen ELSE seen \cup {kind}

\* delete X.exchange(new T(val)): publish a fresh object, free the old one
Exchange(current, val) == [id |-> current.id + 1, val |-> val]

Wrote(w, var, flow) == [w EXCEPT ![var] = @ \cup {flow}]

sigvars == <<running_, exit_code_, term>>
viewvars == <<state_, cached_height_, frame>>
stopvars == <<io_stop, search_stop, bus_running>>

\* ---- search worker (SearchEngine::search_worker) ----

\* a loop head that never tests the stop token
WorkerPoll_nostop ==
    /\ wpc = "poll"
    /\ search_needed_
    /\ search_needed_' = FALSE
    /\ wpc' = "load"
    /\ UNCHANGED <<query_, results_, completions_, w_qptr, w_q, mvars, dvars, bus,
                   sigvars, viewvars, stopvars, app_query, uaf, writers>>
    /\ UNCHANGED <<qvars, pvars, hvars>>

\* loop head: the stop test, then search_needed_.exchange(false); with the flag
\* clear the worker sleeps and polls again
WorkerPoll ==
    /\ wpc = "poll"
    /\ IF search_stop
       THEN wpc' = "done" /\ UNCHANGED search_needed_
       ELSE /\ search_needed_
            /\ search_needed_' = FALSE
            /\ wpc' = "load"
    /\ UNCHANGED <<query_, results_, completions_, w_qptr, w_q, mvars, dvars, bus,
                   sigvars, viewvars, stopvars, app_query, uaf, writers>>
    /\ UNCHANGED <<qvars, pvars, hvars>>

\* qptr = query_.load()
WorkerLoad ==
    /\ wpc = "load"
    /\ w_qptr' = query_
    /\ wpc' = "copy"
    /\ UNCHANGED <<evars, w_q, mvars, dvars, bus, sigvars, viewvars, stopvars,
                   app_query, uaf, writers>>
    /\ UNCHANGED <<qvars, pvars, hvars>>

\* q = *qptr
WorkerCopy ==
    /\ wpc = "copy"
    /\ \E q \in ReadOf(w_qptr, query_, GarbageQueries) : w_q' = q
    /\ uaf' = Deref(uaf, "query", w_qptr, query_)
    /\ wpc' = "publish_results"
    /\ UNCHANGED <<evars, w_qptr, mvars, dvars, bus, sigvars, viewvars, stopvars,
                   app_query, writers>>
    /\ UNCHANGED <<qvars, pvars, hvars>>

\* the scoring loop, the sort and the truncation; delete results_.exchange(...)
WorkerPublishResults ==
    /\ wpc = "publish_results"
    /\ results_' = Exchange(results_, Ranking(w_q))
    /\ wpc' = "publish_completions"
    /\ UNCHANGED <<query_, completions_, search_needed_, w_qptr, w_q, mvars, dvars,
                   bus, sigvars, viewvars, stopvars, app_query, uaf, writers>>
    /\ UNCHANGED <<qvars, pvars, hvars>>

\* a recompute that leaves the completions snapshot as it was
WorkerPublishCompletions_skipped ==
    /\ wpc = "publish_completions"
    /\ wpc' = "enqueue"
    /\ UNCHANGED <<evars, w_qptr, w_q, mvars, dvars,
                   bus, sigvars, viewvars, stopvars, app_query, uaf, writers>>
    /\ UNCHANGED <<qvars, pvars, hvars>>

\* delete completions_.exchange(...)
WorkerPublishCompletions ==
    /\ wpc = "publish_completions"
    /\ completions_' = Exchange(completions_, Candidates(w_q))
    /\ wpc' = "enqueue"
    /\ UNCHANGED <<query_, results_, search_needed_, w_qptr, w_q, mvars, dvars,
                   bus, sigvars, viewvars, stopvars, app_query, uaf, writers>>
    /\ UNCHANGED <<qvars, pvars, hvars>>

\* queue_->emplace(RefreshDisplay{{0, -1, {}}})
WorkerEnqueue ==
    /\ wpc = "enqueue"
    /\ bus' = QueuePush(bus, RefreshDisplay(0, -1, results_.id))
    /\ wpc' = "poll"
    /\ UNCHANGED <<evars, w_qptr, w_q, mvars, dvars, sigvars, viewvars, stopvars,
                   app_query, uaf, writers>>
    /\ UNCHANGED <<qvars, pvars, hvars>>

\* ---- input loop (Application::run) ----

\* engine_.update_query(""), then the two threads are started
RunStart ==
    /\ mpc = "start"
    /\ query_' = Exchange(query_, <<>>)
    /\ search_needed_' = TRUE
    /\ wpc' = "poll"
    /\ dpc' = "loop"
    /\ mpc' = "loop"
    /\ UNCHANGED <<results_, completions_, w_qptr, w_q, m_cptr, m_qptr, retval,
                   keys_left, d_cmd, d_rptr, d_cptr, d_target, d_code, bus,
                   sigvars, viewvars, stopvars, app_query, uaf, writers>>
    /\ UNCHANGED <<qvars, pvars, hvars>>

\* one iteration with a key other than Tab: poll edits the buffer and the
\* command, if any, is emplaced
InputPoll(key) ==
    /\ mpc = "loop" /\ running_ /\ keys_left > 0
    /\ key # KeyTab
    /\ LET r == poll(key, app_query, Nullopt)
       IN /\ app_query' = r.query
          /\ bus' = IF r.cmd = NoCommand THEN bus ELSE QueuePush(bus, r.cmd)
          /\ writers' = IF r.cmd.type = "UpdateQuery"
                        THEN Wrote(writers, "query_buffer", "input") ELSE writers
    /\ keys_left' = keys_left - 1
    /\ UNCHANGED <<evars, mpc, m_cptr, m_qptr, retval, dvars, wvars, sigvars,
                   viewvars, stopvars, uaf>>
    /\ UNCHANGED <<qvars, pvars, hvars>>

\* Tab: get_completion loads the completions pointer
InputTabLoad ==
    /\ mpc = "loop" /\ running_ /\ keys_left > 0
    /\ m_cptr' = completions_
    /\ keys_left' = keys_left - 1
    /\ mpc' = "tab_check"
    /\ UNCHANGED <<evars, m_qptr, retval, dvars, wvars, bus, sigvars, viewvars,
                   stopvars, app_query, uaf, writers>>
    /\ UNCHANGED <<qvars, pvars, hvars>>

\* Tab: comps->empty(), then get_query loads the query pointer
InputTabCheck ==
    /\ mpc = "tab_check"
    /\ \E comps \in ReadOf(m_cptr, completions_, GarbageCompletions) :
          IF comps = <<>>
          THEN mpc' = "loop" /\ UNCHANGED m_qptr
          ELSE mpc' = "tab_finish" /\ m_qptr' = query_
    /\ uaf' = Deref(uaf, "completions", m_cptr, completions_)
    /\ UNCHANGED <<evars, m_cptr, retval, keys_left, dvars, wvars, bus, sigvars,
                   viewvars, stopvars, app_query, writers>>
    /\ UNCHANGED <<qvars, pvars, hvars>>

\* Tab: the query is copied, the common prefix is computed from *comps, and
\* poll replaces the buffer by the completion, if there is one
InputTabFinish ==
    /\ mpc = "tab_finish"
    /\ \E q \in ReadOf(m_qptr, query_, GarbageQueries) :
       \E comps \in ReadOf(m_cptr, completions_, GarbageCompletions) :
          LET r == poll(KeyTab, app_query, get_completion(comps, q))
          IN /\ app_query' = r.query
             /\ bus' = IF r.cmd = NoCommand THEN bus ELSE QueuePush(bus, r.cmd)
             /\ writers' = IF r.cmd.type = "UpdateQuery"
                           THEN Wrote(writers, "query_buffer", "input") ELSE writers
    /\ uaf' = Deref(Deref(uaf, "query", m_qptr, query_),
                    "completions", m_cptr, completions_)
    /\ mpc' = "loop"
    /\ UNCHANGED <<evars, m_cptr, m_qptr, retval, keys_left, dvars, wvars, sigvars,
                   viewvars, stopvars>>
    /\ UNCHANGED <<qvars, pvars, hvars>>

\* while (running_) fails
InputLoopExit ==
    /\ mpc = "loop" /\ ~running_
    /\ mpc' = "shutdown"
    /\ UNCHANGED <<evars, m_cptr, m_qptr, retval, keys_left, dvars, wvars, bus,
                   sigvars, viewvars, stopvars, app_query, uaf, writers>>
    /\ UNCHANGED <<qvars, pvars, hvars>>

\* queue_.shutdown()
RunShutdown ==
    /\ mpc = "shutdown"
    /\ bus_running' = FALSE
    /\ mpc' = "return"
    /\ UNCHANGED <<evars, m_cptr, m_qptr, retval, keys_left, dvars, wvars, bus,
                   sigvars, viewvars, io_stop, search_stop, app_query, uaf, writers>>
    /\ UNCHANGED <<qvars, pvars, hvars>>

\* return exit_code_; the jthread of the dispatcher is destroyed first:
\* request_stop()
RunReturn ==
    /\ mpc = "return"
    /\ retval' = Some(exit_code_)
    /\ io_stop' = TRUE
    /\ mpc' = "join_io"
    /\ UNCHANGED <<evars, m_cptr, m_qptr, keys_left, dvars, wvars, bus, sigvars,
                   viewvars, search_stop, bus_running, app_query, uaf, writers>>
    /\ UNCHANGED <<qvars, pvars, hvars>>

\* the dispatcher is joined; then the worker's thread is destroyed:
\* request_stop()
RunJoinDispatcher ==
    /\ mpc = "join_io" /\ dpc = "done"
    /\ search_stop' = TRUE
    /\ mpc' = "join_search"
    /\ UNCHANGED <<evars, m_cptr, m_qptr, retval, keys_left, dvars, wvars, bus,
                   sigvars, viewvars, io_stop, bus_running, app_query, uaf, writers>>
    /\ UNCHANGED <<qvars, pvars, hvars>>

\* the worker's thread is detached instead of joined
RunJoinWorker_detached ==
    /\ mpc = "join_search"
    /\ mpc' = "done"
    /\ UNCHANGED <<evars, m_cptr, m_qptr, retval, keys_left, dvars, wvars, bus,
                   sigvars, viewvars, stopvars, app_query, uaf, writers>>
    /\ UNCHANGED <<qvars, pvars, hvars>>

\* the worker is joined
RunJoinWorker ==
    /\ mpc = "join_search" /\ wpc = "done"
    /\ mpc' = "done"
    /\ UNCHANGED <<evars, m_cptr, m_qptr, retval, keys_left, dvars, wvars, bus,
                   sigvars, viewvars, stopvars, app_query, uaf, writers>>
    /\ UNCHANGED <<qvars, pvars, hvars>>

\* main: app goes out of scope after run() returned; ~SearchEngine deletes the
\* three snapshots
Freed == [id |-> -1, val |-> <<>>]
DestroyEngine ==
    /\ mpc = "done"
    /\ results_' = Freed
    /\ completions_' = Freed
    /\ query_' = Freed
    /\ mpc' = "destroyed"
    /\ UNCHANGED <<search_needed_, m_cptr, m_qptr, retval, keys_left, dvars, wvars,
                   bus, sigvars, viewvars, stopvars, app_query, uaf, writers>>
    /\ UNCHANGED <<qvars, pvars, hvars>>

\* ---- dispatcher (Application::io_worker) ----

\* the loop condition holds and queue_.pop(IOSleep) returns a command
CanDispatch(type) ==
    /\ dpc = "loop" /\ ~io_stop /\ running_
    /\ bus # <<>>
    /\ QueueFront(bus).type = type

\* the two stores that end the session, in program order
ExitStores_swapped == <<"running_", "exit_code_">>
ExitStores == <<"exit_code_", "running_">>

\* a RefreshDisplay branch that adopts the selection and keeps the scroll
DispatchRefreshDisplay_keepscroll ==
    /\ CanDispatch("RefreshDisplay")
    /\ d_cmd' = QueueFront(bus)
    /\ bus' = QueuePopFront(bus)
    /\ state_' = [state_ EXCEPT !.selected_index = QueueFront(bus).selected_index,
                                !.metrics.dirty = TRUE]
    /\ writers' = Wrote(writers, "state_", "dispatcher")
    /\ dpc' = "render_load"
    /\ UNCHANGED <<evars, mvars, wvars, d_rptr, d_cptr, d_target, d_code, sigvars,
                   cached_height_, frame, stopvars, app_query, uaf>>
    /\ UNCHANGED <<qvars, pvars, hvars>>

\* RefreshDisplay: adopt scroll and selection, force the metrics dirty
DispatchRefreshDisplay ==
    /\ CanDispatch("RefreshDisplay")
    /\ d_cmd' = QueueFront(bus)
    /\ bus' = QueuePopFront(bus)
    /\ state_' = [state_ EXCEPT !.scroll_offset = QueueFront(bus).scroll_offset,
                                !.selected_index = QueueFront(bus).selected_index,
                                !.metrics.dirty = TRUE]
    /\ writers' = Wrote(writers, "state_", "dispatcher")
    /\ dpc' = "render_load"
    /\ UNCHANGED <<evars, mvars, wvars, d_rptr, d_cptr, d_target, d_code, sigvars,
                   cached_height_, frame, stopvars, app_query, uaf>>
    /\ UNCHANGED <<qvars, pvars, hvars>>

\* UpdateQuery: query_ = std::move(arg.query)
DispatchUpdateQuery ==
    /\ CanDispatch("UpdateQuery")
    /\ d_cmd' = QueueFront(bus)
    /\ bus' = QueuePopFront(bus)
    /\ app_query' = QueueFront(bus).query
    /\ writers' = Wrote(writers, "query_buffer", "dispatcher")
    /\ dpc' = "update_exchange"
    /\ UNCHANGED <<evars, mvars, wvars, d_rptr, d_cptr, d_target, d_code, sigvars,
                   viewvars, stopvars, uaf>>
    /\ UNCHANGED <<qvars, pvars, hvars>>

\* engine_.update_query(query_): delete query_.exchange(new std::string(q))
UpdateQueryExchange ==
    /\ dpc = "update_exchange"
    /\ query_' = Exchange(query_, app_query)
    /\ dpc' = "update_flag"
    /\ UNCHANGED <<results_, completions_, search_needed_, mvars, wvars, d_cmd,
                   d_rptr, d_cptr, d_target, d_code, bus, sigvars, viewvars,
                   stopvars, app_query, uaf, writers>>
    /\ UNCHANGED <<qvars, pvars, hvars>>

\* update_query without search_needed_.store(true)
UpdateQueryFlag_forgotten ==
    /\ dpc = "update_flag"
    /\ dpc' = "loop"
    /\ UNCHANGED <<evars, mvars, wvars, d_cmd, d_rptr,
                   d_cptr, d_target, d_code, bus, sigvars, viewvars, stopvars,
                   app_query, uaf, writers>>
    /\ UNCHANGED <<qvars, pvars, hvars>>

\* engine_.update_query(query_): search_needed_.store(true)
UpdateQueryFlag ==
    /\ dpc = "update_flag"
    /\ search_needed_' = TRUE
    /\ dpc' = "loop"
    /\ UNCHANGED <<query_, results_, completions_, mvars, wvars, d_cmd, d_rptr,
                   d_cptr, d_target, d_code, bus, sigvars, viewvars, stopvars,
                   app_query, uaf, writers>>
    /\ UNCHANGED <<qvars, pvars, hvars>>

\* the command is taken off the bus and the handler's get_results loads the
\* results pointer
TakeWithResults(next) ==
    /\ d_cmd' = QueueFront(bus)
    /\ bus' = QueuePopFront(bus)
    /\ d_rptr' = results_
    /\ dpc' = next
    /\ UNCHANGED <<evars, mvars, wvars, d_cptr, d_target, d_code, sigvars, viewvars,
                   stopvars, app_query, uaf, writers>>
    /\ UNCHANGED <<qvars, pvars, hvars>>

\* MoveSelection: handle_move(arg.delta)
DispatchMoveSelection ==
    /\ CanDispatch("MoveSelection")
    /\ TakeWithResults("move")

\* PageScroll: handle_page_scroll(arg.up)
DispatchPageScroll ==
    /\ CanDispatch("PageScroll")
    /\ TakeWithResults("page")

\* SelectResult: handle_select(arg.index)
DispatchSelectResult ==
    /\ CanDispatch("SelectResult")
    /\ TakeWithResults("select")

\* handle_move: copy the results, move the selection, scroll
HandleMove ==
    /\ dpc = "move"
    /\ \E results \in ReadOf(d_rptr, results_, GarbageResults) :
          IF results = <<>>
          THEN dpc' = "loop" /\ UNCHANGED <<state_, writers>>
          ELSE /\ state_' = handle_move(state_, results, d_cmd.delta)
               /\ writers' = Wrote(writers, "state_", "dispatcher")
               /\ dpc' = "render_load"
    /\ uaf' = Deref(uaf, "results", d_rptr, results_)
    /\ UNCHANGED <<evars, mvars, wvars, d_cmd, d_rptr, d_cptr, d_target, d_code,
                   bus, sigvars, cached_height_, frame, stopvars, app_query>>
    /\ UNCHANGED <<qvars, pvars, hvars>>

\* handle_page_scroll: copy the results, move the selection by a page, scroll
HandlePageScroll ==
    /\ dpc = "page"
    /\ \E results \in ReadOf(d_rptr, results_, GarbageResults) :
          IF results = <<>> \/ state_.metrics.max_visible_results = 0
          THEN dpc' = "loop" /\ UNCHANGED <<state_, writers>>
          ELSE /\ state_' = handle_page_scroll(state_, results, d_cmd.up)
               /\ writers' = Wrote(writers, "state_", "dispatcher")
               /\ dpc' = "render_load"
    /\ uaf' = Deref(uaf, "results", d_rptr, results_)
    /\ UNCHANGED <<evars, mvars, wvars, d_cmd, d_rptr, d_cptr, d_target, d_code,
                   bus, sigvars, cached_height_, frame, stopvars, app_query>>
    /\ UNCHANGED <<qvars, pvars, hvars>>

\* history record of one handle_select call: the command's index, the selection
\* and the results copy it saw (row count, corpus index of row 0, the snapshot
\* it was loaded from), the snapshot display_.select loaded, and what the call
\* did
Entered(results, outcome) ==
    [idx |-> d_cmd.index, sel |-> state_.selected_index,
     count |-> Len(results),
     first |-> IF results = <<>> THEN -1 ELSE results[1].index,
     snap |-> d_rptr.id, read |-> 0, outcome |-> outcome, code |-> -1]

\* the record of the running call, once display_.select has returned
Returned(log, outcome, code) ==
    [log EXCEPT ![Len(log)] =
        [@ EXCEPT !.read = d_rptr.id, !.outcome = outcome, !.code = code]]

\* handle_select: copy the results and resolve target_index; with several
\* results and no selection, select row 0 and render instead of confirming
HandleSelect ==
    /\ dpc = "select"
    /\ \E results \in ReadOf(d_rptr, results_, GarbageResults) :
          IF d_cmd.index < 0 /\ state_.selected_index < 0 /\ Len(results) > 1
          THEN /\ state_' = [state_ EXCEPT !.selected_index = 0]
               /\ writers' = Wrote(writers, "state_", "dispatcher")
               /\ dpc' = "render_load"
               /\ enters' = Append(enters, Entered(results, "selected"))
               /\ UNCHANGED d_target
          ELSE /\ d_target' = IF d_cmd.index >= 0 THEN d_cmd.index
                              ELSE IF state_.selected_index >= 0
                                   THEN state_.selected_index
                                   ELSE IF Len(results) = 1 THEN 0
                                   ELSE d_cmd.index
               /\ dpc' = "select_load"
               /\ enters' = Append(enters, Entered(results, "pending"))
               /\ UNCHANGED <<state_, writers>>
    /\ uaf' = Deref(uaf, "results", d_rptr, results_)
    /\ UNCHANGED <<evars, mvars, wvars, d_cmd, d_rptr, d_cptr, d_code, bus, sigvars,
                   cached_height_, frame, stopvars, app_query>>
    /\ UNCHANGED <<qvars, pvars>>

\* display_.select(target_index): get_results loads the results pointer again
SelectLoad ==
    /\ dpc = "select_load"
    /\ d_rptr' = results_
    /\ dpc' = "select_confirm"
    /\ UNCHANGED <<evars, mvars, wvars, d_cmd, d_cptr, d_target, d_code, bus,
                   sigvars, viewvars, stopvars, app_query, uaf, writers>>
    /\ UNCHANGED <<qvars, pvars, hvars>>

\* display_.select(target_index): copy the results, validate, return the code
SelectConfirm ==
    /\ dpc = "select_confirm"
    /\ \E results \in ReadOf(d_rptr, results_, GarbageResults) :
          LET code == select(Entries, results, d_target)
          IN IF code # Nullopt
             THEN /\ d_code' = code[1] /\ dpc' = "exit_first"
                  /\ enters' = Returned(enters, "confirmed", code[1])
             ELSE /\ dpc' = "loop" /\ UNCHANGED d_code
                  /\ enters' = Returned(enters, "nothing", -1)
    /\ uaf' = Deref(uaf, "results", d_rptr, results_)
    /\ UNCHANGED <<evars, mvars, wvars, d_cmd, d_rptr, d_cptr, d_target, bus,
                   sigvars, viewvars, stopvars, app_query, writers>>
    /\ UNCHANGED <<qvars, pvars>>

\* Exit: the code to store is the command's
DispatchExit ==
    /\ CanDispatch("Exit")
    /\ d_cmd' = QueueFront(bus)
    /\ bus' = QueuePopFront(bus)
    /\ d_code' = QueueFront(bus).code
    /\ dpc' = "exit_first"
    /\ UNCHANGED <<evars, mvars, wvars, d_rptr, d_cptr, d_target, sigvars, viewvars,
                   stopvars, app_query, uaf, writers>>
    /\ UNCHANGED <<qvars, pvars, hvars>>

\* one of: exit_code_ = code; running_ = false
StoreExit(which) ==
    IF which = "exit_code_"
    THEN /\ exit_code_' = d_code
         /\ term' = Append(term, d_code)
         /\ UNCHANGED running_
    ELSE /\ running_' = FALSE
         /\ UNCHANGED <<exit_code_, term>>

ExitFirst ==
    /\ dpc = "exit_first"
    /\ StoreExit(ExitStores[1])
    /\ dpc' = "exit_second"
    /\ UNCHANGED <<evars, mvars, wvars, d_cmd, d_rptr, d_cptr, d_target, d_code,
                   bus, viewvars, stopvars, app_query, uaf, writers>>
    /\ UNCHANGED <<qvars, pvars, hvars>>

ExitSecond ==
    /\ dpc = "exit_second"
    /\ StoreExit(ExitStores[2])
    /\ dpc' = "loop"
    /\ UNCHANGED <<evars, mvars, wvars, d_cmd, d_rptr, d_cptr, d_target, d_code,
                   bus, viewvars, stopvars, app_query, uaf, writers>>
    /\ UNCHANGED <<qvars, pvars, hvars>>

\* the loop condition fails: stop requested, or running_ is false
DispatcherStop ==
    /\ dpc = "loop" /\ (io_stop \/ ~running_)
    /\ dpc' = "done"
    /\ UNCHANGED <<evars, mvars, wvars, d_cmd, d_rptr, d_cptr, d_target, d_code,
                   bus, sigvars, viewvars, stopvars, app_query, uaf, writers>>
    /\ UNCHANGED <<qvars, pvars, hvars>>

\* ---- DisplayManager::render, called by the dispatcher ----

\* get_terminal_height_cached: the cached height, or a fresh sample when the
\* cache is empty or older than Timing::HeightCache
HeightSamples(cached) == IF cached = 0 THEN Heights ELSE {cached} \cup Heights

\* the metrics render returns, what it leaves in last_terminal_height and in
\* the cache, for the heights its three calls of the cache return
RenderMetrics(st, h1, h2, h3) ==
    IF st.last_terminal_height # h2
    THEN [metrics |-> measure_display([st.metrics EXCEPT !.dirty = TRUE], h3),
          last |-> h2, cached |-> h3]
    ELSE [metrics |-> measure_display(st.metrics, h1),
          last |-> st.last_terminal_height, cached |-> h2]

\* render: get_query, then get_results loads the results pointer
RenderLoad ==
    /\ dpc = "render_load"
    /\ d_rptr' = results_
    /\ dpc' = "render_copy"
    /\ UNCHANGED <<evars, mvars, wvars, d_cmd, d_cptr, d_target, d_code, bus,
                   sigvars, viewvars, stopvars, app_query, uaf, writers>>
    /\ UNCHANGED <<qvars, pvars, hvars>>

\* render: the results are copied; get_completions loads its pointer
RenderCopy ==
    /\ dpc = "render_copy"
    /\ \E results \in ReadOf(d_rptr, results_, GarbageResults) :
          frame' = [cmd |-> d_cmd.type,
                    gen |-> IF d_cmd.type = "RefreshDisplay" THEN d_cmd.gen ELSE 0,
                    rid |-> d_rptr.id,
                    torn |-> d_rptr.id # results_.id,
                    count |-> Len(results),
                    rows |-> results]
    /\ uaf' = Deref(uaf, "results", d_rptr, results_)
    /\ d_cptr' = completions_
    /\ dpc' = "render_finish"
    /\ UNCHANGED <<evars, mvars, wvars, d_cmd, d_rptr, d_target, d_code, bus,
                   sigvars, state_, cached_height_, stopvars, app_query, writers>>
    /\ UNCHANGED <<qvars, pvars, hvars>>

\* render: the completions are copied, the header, the rows and the footer are
\* written, and the dispatcher stores the metrics render returns
RenderFinish ==
    /\ dpc = "render_finish"
    /\ uaf' = Deref(uaf, "completions", d_cptr, completions_)
    /\ \E h1 \in HeightSamples(cached_height_) :
       \E h2 \in HeightSamples(h1) :
       \E h3 \in HeightSamples(h2) :
          LET m == RenderMetrics(state_, h1, h2, h3)
          IN /\ state_' = [state_ EXCEPT !.metrics = m.metrics,
                                         !.last_terminal_height = m.last]
             /\ cached_height_' = m.cached
    /\ writers' = Wrote(Wrote(writers, "state_", "dispatcher"),
                        "cached_height_", "dispatcher")
    /\ dpc' = "loop"
    /\ UNCHANGED <<evars, mvars, wvars, d_cmd, d_rptr, d_cptr, d_target, d_code,
                   bus, sigvars, frame, stopvars, app_query>>
    /\ UNCHANGED <<qvars, pvars, hvars>>

\* ---- the application ----
WorkerNext ==
    \/ WorkerPoll \/ WorkerLoad \/ WorkerCopy
    \/ WorkerPublishResults \/ WorkerPublishCompletions \/ WorkerEnqueue

InputNext ==
    \/ RunStart
    \/ \E key \in Keystrokes : InputPoll(key)
    \/ InputTabLoad \/ InputTabCheck \/ InputTabFinish
    \/ InputLoopExit \/ RunShutdown \/ RunReturn
    \/ RunJoinDispatcher \/ RunJoinWorker \/ DestroyEngine

DispatcherNext ==
    \/ DispatchRefreshDisplay \/ DispatchUpdateQuery
    \/ UpdateQueryExchange \/ UpdateQueryFlag
    \/ DispatchMoveSelection \/ DispatchPageScroll \/ DispatchSelectResult
    \/ HandleMove \/ HandlePageScroll \/ HandleSelect
    \/ SelectLoad \/ SelectConfirm
    \/ DispatchExit \/ ExitFirst \/ ExitSecond \/ DispatcherStop
    \/ RenderLoad \/ RenderCopy \/ RenderFinish

ANext == WorkerNext \/ InputNext \/ DispatcherNext

\* the state after construction
NoCall == [fn |-> "none"]
Init == QInit /\ AInit /\ call = NoCall /\ ret = <<>>

Spec == Init /\ [][ANext]_vars

\* the steps the input loop takes without the user: the end of a Tab, leaving
\* the loop, shutting down, returning and joining
InputEnds ==
    \/ InputTabCheck \/ InputTabFinish
    \/ InputLoopExit \/ RunShutdown \/ RunReturn
    \/ RunJoinDispatcher \/ RunJoinWorker \/ DestroyEngine

\* a session of three keystrokes among the character c and Enter: "c" matches
\* one record of the corpus, "cc" matches none
EnterKeys == 3
EnterKeystrokes == {S1("c"), KeyEnter}

InitEnter == QInit /\ AInitKeys(EnterKeys) /\ call = NoCall /\ ret = <<>>

EnterNext ==
    \/ WorkerNext
    \/ RunStart
    \/ \E key \in EnterKeystrokes : InputPoll(key)
    \/ InputLoopExit \/ RunShutdown \/ RunReturn
    \/ RunJoinDispatcher \/ RunJoinWorker \/ DestroyEngine
    \/ DispatchRefreshDisplay \/ DispatchUpdateQuery
    \/ UpdateQueryExchange \/ UpdateQueryFlag
    \/ DispatchSelectResult \/ HandleSelect \/ SelectLoad \/ SelectConfirm
    \/ ExitFirst \/ ExitSecond \/ DispatcherStop
    \/ RenderLoad \/ RenderCopy \/ RenderFinish

SpecEnter == InitEnter /\ [][EnterNext]_vars

\* ---- the dispatcher's view under navigation keys and worker publishes ----

\* a session of arrow and page keys, with the worker publishing the
\* ranking of one query after the other: the input loop only enqueues the
\* commands of the keys, and each recompute of the worker is one step
ViewKeys == 4
MaxPublish == 2
ViewKeystrokes == {KeyUp, KeyDown, KeyPageUp, KeyPageDown}
\* commands waiting on the bus when the user presses a further key
MaxQueued == 1
\* the queries the worker recomputes for: 3, 2, 1 and 0 matching records
ViewTexts == {<<>>, S1("a"), S1("c"), S1("z")}

InitView == QInit /\ AInitKeys(ViewKeys) /\ call = NoCall /\ ret = <<>>

\* search_worker, one recompute: publish the results and the completions of
\* q, then enqueue RefreshDisplay
ViewPublish(q) ==
    /\ wpc = "poll" /\ ~search_stop
    /\ results_.id <= MaxPublish
    /\ Len(bus) <= MaxQueued
    /\ results_' = Exchange(results_, Ranking(q))
    /\ completions_' = Exchange(completions_, Candidates(q))
    /\ bus' = QueuePush(bus, RefreshDisplay(0, -1, results_.id + 1))
    /\ UNCHANGED <<query_, search_needed_, wvars, mvars, dvars, sigvars, viewvars,
                   stopvars, app_query, uaf, writers>>
    /\ UNCHANGED <<qvars, pvars, hvars>>

\* the input loop polls a key once the dispatcher has caught up
ViewKey(key) ==
    /\ Len(bus) < MaxQueued
    /\ InputPoll(key)

ViewNext ==
    \/ RunStart
    \/ \E q \in ViewTexts : ViewPublish(q)
    \/ \E key \in ViewKeystrokes : ViewKey(key)
    \/ DispatchRefreshDisplay
    \/ DispatchMoveSelection \/ DispatchPageScroll
    \/ HandleMove \/ HandlePageScroll
    \/ RenderLoad \/ RenderCopy \/ RenderFinish

SpecView == InitView /\ [][ViewNext]_vars

\* ---- typing a text ----

\* the user types the characters of TypedText, one per keystroke
TypedText == <<"a", "c", "z">>
TypeKeys == Len(TypedText)

InitType == QInit /\ AInitKeys(TypeKeys) /\ call = NoCall /\ ret = <<>>

\* the input loop polls the next character of the text
TypeKey ==
    /\ keys_left > 0
    /\ InputPoll(<<TypedText[TypeKeys - keys_left + 1]>>)

TypeNext ==
    \/ WorkerNext
    \/ RunStart
    \/ TypeKey
    \/ DispatchRefreshDisplay \/ DispatchUpdateQuery
    \/ UpdateQueryExchange \/ UpdateQueryFlag
    \/ RenderLoad \/ RenderCopy \/ RenderFinish

SpecType == InitType /\ [][TypeNext]_vars

\* ---- selecting a row while the worker publishes ----

\* a session of Down and Enter keys with the worker publishing rankings
SelectKeys == 3
SelectKeystrokes == {KeyDown, KeyEnter}

InitSelect == QInit /\ AInitKeys(SelectKeys) /\ call = NoCall /\ ret = <<>>

SelectNext ==
    \/ RunStart
    \/ \E q \in ViewTexts : ViewPublish(q)
    \/ \E key \in SelectKeystrokes : ViewKey(key)
    \/ DispatchRefreshDisplay
    \/ DispatchMoveSelection \/ HandleMove
    \/ DispatchSelectResult \/ HandleSelect \/ SelectLoad \/ SelectConfirm
    \/ ExitFirst \/ ExitSecond \/ DispatcherStop
    \/ RenderLoad \/ RenderCopy \/ RenderFinish

SpecSelect == InitSelect /\ [][SelectNext]_vars

\* ------------------------------------------------------------------------
\* The functions on their own: one call of select, of score or of the
\* worker's recompute, with arguments drawn from the sets below
\* ------------------------------------------------------------------------
\* records of the corpus the selection is made from: more than MaxExitCode
BigCorpusSize == 258
BigCorpus == [i \in 1..BigCorpusSize |-> MkEntry(S1("a"), S1("a"))]

\* corpus indices of the rows of a results snapshot, around the clamp
RowIndices == {0, 1, 254, 255, 256, 257}
MaxRows == 2
Row(c) == [index |-> c, score |-> Default]
RowLists ==
    {<<>>} \cup {<<Row(c)>> : c \in RowIndices}
           \cup {<<Row(p[1]), Row(p[2])>> :
                   p \in {t \in RowIndices \X RowIndices : t[1] # t[2]}}

\* records to score: key and content with prefixes, inner matches, punctuation
\* inside a word, capitals, and words in query order
E_ab == MkEntry(S2("a", "b"), S2("a", "b"))
E_ba == MkEntry(S2("b", "a"), <<"b", " ", "a">>)
E_cab == MkEntry(S1("c"), <<"c", "a", "b">>)
E_dash == MkEntry(S1("c"), <<"a", "-", "b">>)
E_caps == MkEntry(<<"A", " ", "b">>, <<"B", " ", "a">>)
E_seq == MkEntry(S1("c"), <<"a", " ", "b">>)
E_dashkey == MkEntry(<<"a", "-", "b">>, S1("c"))
PureEntries == {E_ab, E_ba, E_cab, E_dash, E_caps, E_seq, E_dashkey}

\* the corpus of the two DOOM records, and the two queries put to it
DoomKey == <<"D", "O", "O", "M">>
DoomContent ==
    <<"D", "O", "O", "M", " ", "1", "9", "9", "3", " ", "i", "d",
      " ", "S", "o", "f", "t", "w", "a", "r", "e">>
DoomIIKey == <<"D", "O", "O", "M", " ", "I", "I">>
DoomIIContent ==
    <<"D", "O", "O", "M", " ", "I", "I", " ", "H", "e", "l", "l",
      " ", "o", "n", " ", "E", "a", "r", "t", "h", " ", "1", "9",
      "9", "4", " ", "i", "d", " ", "S", "o", "f", "t", "w", "a",
      "r", "e">>
DoomCorpus == <<MkEntry(DoomKey, DoomContent), MkEntry(DoomIIKey, DoomIIContent)>>
Query_doom == <<"d", "o", "o", "m">>
Query_1994id == <<"1", "9", "9", "4", " ", "i", "d">>

\* corpora to rank; the second holds two records of equal content
PureCorpora ==
    {<<>>, <<E_ab, E_ba, E_cab>>, <<E_cab, E_ab, E_ab>>, <<E_seq, E_caps, E_dash>>,
     <<E_ba, E_dash, E_seq, E_ab>>, DoomCorpus}

\* queries: empty, without token, one token, several tokens, a repeated token
PureQueries ==
    {<<>>, S1(" "), S1("!"), <<"!", " ", "-">>, S1("a"), S1("b"), S1("A"),
     S2("a", "b"), S2("a", "!"), S1("z"),
     <<"a", " ", "b">>, <<"b", " ", "a">>, <<"a", " ", "a">>, <<"a", " ", "z">>,
     <<"c", " ", "a">>, <<"a", "-", "b">>, <<"A", " ", "b">>,
     Query_doom, Query_1994id}

\* a record whose key holds a space and whose second word begins the key
E_bebe == MkEntry(<<"b", "e", " ", "b", "e">>, S1("x"))

\* corpora to complete from, and the queries: empty, one word in either case,
\* ending in a space, two words
CompletionCorpora == {<<E_bebe>>, <<E_caps>>, <<E_ab, E_ba, E_cab>>, DoomCorpus}
CompletionQueries ==
    {<<>>, S1("a"), S1("b"), S1("A"), S1("c"), S1("D"), S2("d", "o"),
     S2("b", " "), <<"b", " ", "a">>, <<"x", " ", "B">>}

\* no completion accepted before this call
NoPrev == [taken |-> FALSE, query |-> <<>>, comps |-> <<>>]

NoEntry == MkEntry(<<>>, <<>>)
CallRecord(fn, entries, results, index, entry, query, comps, prev) ==
    [fn |-> fn, entries |-> entries, results |-> results, index |-> index,
     entry |-> entry, query |-> query, comps |-> comps, prev |-> prev,
     metrics |-> InitialMetrics, height |-> 0,
     input |-> <<>>, completion |-> Nullopt, limit |-> MaxResults]
Call(fn, entries, results, index, entry, query) ==
    CallRecord(fn, entries, results, index, entry, query, <<>>, NoPrev)

\* get_completion() called with the engine holding the completions snapshot
\* comps and the query q; prev tells of the completion accepted just before
CompletionCall(entries, comps, q, prev) ==
    CallRecord("completion", entries, <<>>, -1, NoEntry, q, comps, prev)

\* terminal heights to measure, and the metrics a measure can be handed: the
\* initial ones, those an earlier measure returned, the same marked dirty
MaxHeight == 20
MeasuredMetrics == {measure_display(InitialMetrics, h) : h \in 0..MaxHeight}
OldMetrics ==
    {InitialMetrics} \cup MeasuredMetrics
                     \cup {[m EXCEPT !.dirty = TRUE] : m \in MeasuredMetrics}

\* measure_display(old_metrics) with the height cache returning height
MeasureCall(old_metrics, height) ==
    [Call("measure", <<>>, <<>>, -1, NoEntry, <<>>)
        EXCEPT !.metrics = old_metrics, !.height = height]

\* ---- InputHandler::poll on one terminal buffer ----
\* the bytes of the harness: the control codes poll tests for, the bytes of
\* the escape sequences, a printable byte and a byte poll ignores
PollBytes ==
    {"ETX", "TAB", "DEL", "BS", "CR", "LF", "ESC", "NUL",
     "[", "A", "B", "C", "5", "6", "~", "a"}
\* the bytes that follow ESC in the harness
EscTail == {"ESC", "[", "A", "B", "C", "5", "6", "~", "a"}
MaxTail == 3
MaxBurst == 3

RECURSIVE Repeat(_, _)
Repeat(key, n) == IF n = 0 THEN <<>> ELSE key \o Repeat(key, n - 1)

\* what the terminal buffer holds (or receives within the read timeouts) when
\* poll runs: up to two arbitrary bytes, ESC with up to MaxTail bytes behind
\* it, and bursts of a repeated arrow or page key
PollInputs ==
    {<<b>> : b \in PollBytes}
    \cup {<<b, c>> : b \in PollBytes, c \in PollBytes}
    \cup UNION {{KeyEscape \o t : t \in [1..n -> EscTail]} : n \in 1..MaxTail}
    \cup {Repeat(k, n) : k \in {KeyUp, KeyDown, KeyPageUp, KeyPageDown},
                         n \in 1..MaxBurst}
\* the query buffer of the input loop
PollQueries == {<<>>, S1("a"), <<"a", "b">>}
\* get_completion() answers for the query the engine holds, which trails the
\* buffer by the UpdateQuery commands still queued: the engine's query is
\* empty or "a" over the entries ab, ba and cab
PollCorpus == <<E_ab, E_ba, E_cab>>
PollCompletions ==
    {get_completion(find_completions(PollCorpus, q), q) : q \in {<<>>, S1("a")}}

PollCall(input, q, completion) ==
    [Call("poll", <<>>, <<>>, -1, NoEntry, q)
        EXCEPT !.input = input, !.completion = completion]

\* the recompute with the cap of Display::MaxResults rows lowered to a few
\* rows, so that rankings of the small corpora exceed it
CapRows == 2
RankCappedCall(entries, q, limit) ==
    [Call("rank_capped", entries, <<>>, -1, NoEntry, q) EXCEPT !.limit = limit]

Calls ==
    {Call("select", BigCorpus, rs, i, NoEntry, <<>>) :
        rs \in RowLists, i \in -1..MaxRows}
    \cup {Call("score", <<>>, <<>>, -1, e, q) : e \in PureEntries, q \in PureQueries}
    \cup {Call("rank", c, <<>>, -1, NoEntry, q) : c \in PureCorpora, q \in PureQueries}
    \cup {RankCappedCall(c, q, n) : c \in PureCorpora, q \in PureQueries, n \in 1..CapRows}
    \cup {CompletionCall(c, find_completions(c, q0), q, NoPrev) :
            c \in CompletionCorpora, q0 \in CompletionQueries, q \in CompletionQueries}
    \cup {MeasureCall(m, h) : m \in OldMetrics, h \in 0..MaxHeight}
    \cup {PollCall(i, q, c) : i \in PollInputs, q \in PollQueries, c \in PollCompletions}

PInit == QInit /\ AInit /\ call \in Calls /\ ret = <<>>

\* display_.select(index) on the results copy
ApplySelect ==
    /\ call.fn = "select" /\ ret = <<>>
    /\ ret' = <<select(call.entries, call.results, call.index)>>
    /\ UNCHANGED <<call, qvars, avars>>

\* score(entry, query)
ApplyScore ==
    /\ call.fn = "score" /\ ret = <<>>
    /\ ret' = <<score(call.entry, call.query)>>
    /\ UNCHANGED <<call, qvars, avars>>

\* the worker's recompute of the ranking for the query
ApplyRank ==
    /\ call.fn \in {"rank", "rank_capped"} /\ ret = <<>>
    /\ \E rs \in SortOutcomes(call.entries, RankAll(call.entries, call.query)) :
          ret' = <<TruncateResults(rs, call.limit)>>
    /\ UNCHANGED <<call, qvars, avars>>

\* get_completion() on the snapshot and the query
ApplyCompletion ==
    /\ call.fn = "completion" /\ ret = <<>>
    /\ ret' = <<get_completion(call.comps, call.query)>>
    /\ UNCHANGED <<call, qvars, avars>>

\* Tab accepted the completion: UpdateQuery(c) is applied, the worker has
\* recomputed the completions for c or not yet, and Tab is pressed again
AcceptCompletion ==
    /\ call.fn = "completion" /\ ret # <<>> /\ ret[1] # Nullopt
    /\ ~call.prev.taken
    /\ \E comps \in {call.comps, find_completions(call.entries, ret[1][1])} :
          call' = CompletionCall(call.entries, comps, ret[1][1],
                                 [taken |-> TRUE, query |-> call.query,
                                  comps |-> call.comps])
    /\ ret' = <<>>
    /\ UNCHANGED <<qvars, avars>>

\* measure_display(old_metrics)
ApplyMeasure ==
    /\ call.fn = "measure" /\ ret = <<>>
    /\ ret' = <<measure_display(call.metrics, call.height)>>
    /\ UNCHANGED <<call, qvars, avars>>

\* poll on the terminal buffer of the call
ApplyPoll ==
    /\ call.fn = "poll" /\ ret = <<>>
    /\ ret' = <<poll(call.input, call.query, call.completion)>>
    /\ UNCHANGED <<call, qvars, avars>>

PNext ==
    \/ ApplySelect \/ ApplyScore \/ ApplyRank
    \/ ApplyCompletion \/ AcceptCompletion
    \/ ApplyMeasure
    \/ ApplyPoll

SpecPure == PInit /\ [][PNext]_vars

\* the application with its threads scheduled: the worker and the dispatcher
\* poll with a timeout and take their next step whenever they have one, the
\* input loop polls every IOSleep; only the user's typing is not forced
SpecLive ==
    /\ Init /\ [][ANext]_vars
    /\ WF_vars(RunStart)
    /\ WF_vars(WorkerNext)
    /\ WF_vars(DispatcherNext)
    /\ WF_vars(InputEnds)

\* ---- the engine alone, driven by a caller of update_query ----

\* the caller enters update_query(q)
UpdateQueryCall(q) ==
    /\ dpc = "loop" /\ keys_left > 0
    /\ keys_left' = keys_left - 1
    /\ app_query' = q
    /\ dpc' = "update_exchange"
    /\ UNCHANGED <<evars, m_cptr, m_qptr, retval, mpc, wvars, d_cmd, d_rptr, d_cptr,
                   d_target, d_code, bus, sigvars, viewvars, stopvars, uaf, writers>>
    /\ UNCHANGED <<qvars, pvars, hvars>>

\* the owner of the worker's thread requests it to stop
StopWorker ==
    /\ wpc \notin {"notstarted", "done"} /\ ~search_stop
    /\ search_stop' = TRUE
    /\ UNCHANGED <<evars, mvars, dvars, wvars, bus, sigvars, viewvars, io_stop,
                   bus_running, app_query, uaf, writers>>
    /\ UNCHANGED <<qvars, pvars, hvars>>

EngineNext ==
    \/ RunStart
    \/ WorkerNext
    \/ \E q \in QueryTexts : UpdateQueryCall(q)
    \/ UpdateQueryExchange \/ UpdateQueryFlag
    \/ StopWorker

\* the worker runs on a thread of its own and takes its next step whenever it
\* has one; a call of update_query runs to its end; the caller may stop
\* calling at any time
SpecEngine ==
    /\ Init /\ [][EngineNext]_vars
    /\ WF_vars(RunStart)
    /\ WF_vars(WorkerNext)
    /\ WF_vars(UpdateQueryExchange \/ UpdateQueryFlag)

\* the command bus alone, driven by producers and consumers
SpecQueue == Init /\ [][QNext]_vars

\* ========================================================================
\* Claims about the command bus (checked under SpecQueue)
\* ========================================================================

NoDuplicates(s) == \A i, j \in 1..Len(s) : i # j => s[i] # s[j]

\* C4: the bus is FIFO without loss or duplication: the items returned by the
\* pops, in the order the pops took effect, followed by the items still
\* queued, are exactly the items in the order the pushes took effect, and no
\* item is returned twice.
C4_FifoNoLossNoDup ==
    /\ popped \o queue_ = pushed
    /\ NoDuplicates(popped)

\* two items of two producers went through the queue, popped after both were
\* pushed
C4_Witness ==
    /\ Len(popped) = 2
    /\ popped[1][1] # popped[2][1]
    /\ queue_ = <<>>

\* C5: once shutdown() has returned, no consumer is left blocked in the
\* untimed pop() on an empty queue that no producer will fill any more (it
\* would wait forever: nothing is left to notify it).
C5_ShutdownWakesAll ==
    (/\ spc = "done"
     /\ queue_ = <<>>
     /\ \A p \in Producers : ppc[p] = "idle" /\ pleft[p] = 0)
    => \A c \in Consumers : ~(cpc[c] = "waiting" /\ cop[c] = "pop")

\* C6: draining continues after shutdown: a pop call that returns, before or
\* after shutdown(), returns nullopt only when the queue is empty at that
\* moment, and otherwise returns and removes the front item.
C6_DrainAfterShutdown ==
    [][\A c \in Consumers :
          cleft'[c] # cleft[c] =>
              IF queue_ = <<>>
              THEN lastret'.kind = Empty /\ popped' = popped /\ queue_' = queue_
              ELSE /\ lastret'.kind = "item"
                   /\ popped' = Append(popped, Head(queue_))
                   /\ queue_' = Tail(queue_)]_vars

\* an item was returned by a pop call that completed after shutdown() had
\* returned, and the queue has been drained
C6_Witness ==
    /\ spc = "done"
    /\ lastret = [kind |-> "item", sd |-> TRUE]
    /\ queue_ = <<>>
    /\ Len(popped) = 2

\* ========================================================================
\* Claims about the snapshots, the worker and the dispatcher (checked under
\* Spec; C2 under SpecEngine)
\* ========================================================================

\* C1: no reader ever copies from a snapshot object its writer has already
\* discarded: the set of snapshot kinds read after their delete stays empty.
C1_NoUseAfterFree == uaf = {}

\* the last update_query has completed, the worker has tested and found the
\* flag clear, and it keeps running
WorkerIdle ==
    /\ wpc = "poll" /\ ~search_needed_ /\ ~search_stop
    /\ dpc # "update_flag"

\* get_results() is the ranking of the corpus for the published query and
\* get_completions() its candidates
Settled ==
    /\ results_.val = Ranking(query_.val)
    /\ completions_.val = Candidates(query_.val)

\* C2: while the worker keeps running, the results and the completions
\* eventually are those of the last query update and stay so; and whenever
\* the worker has nothing left to do they are those of the published query
\* (so they stay so until the next update_query).
C2_EventuallySettled ==
    /\ [](WorkerIdle => Settled)
    /\ <>[](search_stop \/ (WorkerIdle /\ Settled))

\* the worker recomputed for a typed query, after a read of a discarded query
\* object, and came to rest with the ranking of that query published
C2_Witness ==
    /\ WorkerIdle /\ Settled
    /\ query_.val # <<>>
    /\ "query" \in uaf

\* C3: no plain (non-atomic, non-snapshot) variable is written by more than
\* one flow: the query text buffer, the display state and the height cache
\* each have at most one writing flow.
C3_SingleWriter == \A v \in DOMAIN writers : Cardinality(writers[v]) <= 1

\* the generations of the RefreshDisplay commands waiting in the bus
QueuedGens == [i \in DOMAIN bus |-> IF bus[i].type = "RefreshDisplay" THEN bus[i].gen ELSE 0]

\* C7: every RefreshDisplay the worker enqueued carries scroll_offset 0 and
\* selected_index -1, was enqueued after the results and the completions of
\* its recompute were published, and is the only one of its recompute; and
\* when the dispatcher renders for it, scroll_offset is 0, selected_index is
\* -1, the metrics are dirty, and the results object it copies is at least as
\* new as that recompute's and has not been discarded.
C7_RefreshAfterPublish ==
    /\ \A i \in DOMAIN bus :
          bus[i].type = "RefreshDisplay" =>
             /\ bus[i].scroll_offset = 0 /\ bus[i].selected_index = -1
             /\ bus[i].gen <= results_.id /\ bus[i].gen <= completions_.id
             /\ \A j \in DOMAIN bus : j # i => QueuedGens[j] # bus[i].gen
    /\ (dpc = "render_finish" /\ frame.cmd = "RefreshDisplay") =>
          /\ state_.scroll_offset = 0 /\ state_.selected_index = -1
          /\ state_.metrics.dirty
          /\ frame.rid >= frame.gen
          /\ ~frame.torn

\* C8: when the dispatcher is between commands, selected_index is -1 or a
\* valid index into the published results (stated for the runs without any
\* read of a discarded snapshot).
C8_SelectedInRange ==
    (dpc \in {"loop", "done"} /\ uaf = {}) =>
       \/ state_.selected_index = -1
       \/ 0 <= state_.selected_index /\ state_.selected_index < Len(results_.val)

\* C9: when the dispatcher is between commands and a row is selected, the
\* selected row lies inside the viewport (stated for the runs without any
\* read of a discarded snapshot).
C9_SelectedVisible ==
    (dpc \in {"loop", "done"} /\ uaf = {} /\ state_.selected_index >= 0) =>
       /\ state_.scroll_offset <= state_.selected_index
       /\ state_.selected_index <
             state_.scroll_offset + state_.metrics.max_visible_results

\* C10: processing Exit{code} stores code and clears running_; once run() has
\* returned, its value is the code of the first terminating command; there is
\* at most one terminating command; and after running_ is cleared the exit
\* code is not stored again and the dispatcher dequeues nothing.
C10_ExitOnce ==
    /\ [](Len(term) <= 1)
    /\ [](retval # <<>> => term # <<>> /\ retval = Some(term[1]))
    /\ [][(dpc = "exit_second" /\ dpc' = "loop" /\ d_cmd.type = "Exit") =>
             exit_code_' = d_cmd.code /\ ~running_']_vars
    /\ [][~running_ =>
             /\ exit_code_' = exit_code_ /\ term' = term /\ ~running_'
             /\ d_cmd' = d_cmd
             /\ Len(bus') >= Len(bus)]_vars

\* run() returned the code of a confirmed selection other than ExitSuccess,
\* and all threads are joined
C10_Witness ==
    /\ mpc = "done"
    /\ term # <<>> /\ term[1] # ExitSuccess
    /\ retval = Some(term[1])

\* ========================================================================
\* Claims about stopping (C11 under SpecLive, C12 under Spec)
\* ========================================================================

\* all flows have stopped and run() has returned
AllStopped ==
    /\ mpc \in {"done", "destroyed"} /\ retval # <<>>
    /\ dpc = "done" /\ wpc = "done"

\* C11: once the dispatcher has processed a terminating command, eventually
\* the input loop, the dispatcher and the worker have all stopped and run()
\* has returned.
C11_EventuallyStops == (term # <<>>) ~> AllStopped

\* a terminating command has been processed while the worker is in the middle
\* of a recompute and a command is still queued
C11_Witness ==
    /\ term # <<>> /\ ~running_
    /\ wpc \in {"copy", "publish_results", "publish_completions"}
    /\ bus # <<>>

\* C12: the bus is shut down only after the input loop has stopped polling;
\* the joins come after the shutdown; the engine is destroyed only after the
\* dispatcher and the worker have stopped; and after the destructor no step
\* reads or replaces a snapshot.
C12_ShutdownOrder ==
    /\ [](~bus_running => mpc \notin {"start", "loop", "tab_check", "tab_finish"})
    /\ [](mpc \in {"join_io", "join_search", "done", "destroyed"} => ~bus_running)
    /\ [](mpc \in {"join_search", "done", "destroyed"} => dpc = "done")
    /\ [](mpc \in {"done", "destroyed"} => wpc = "done")
    /\ [][mpc = "destroyed" =>
             UNCHANGED <<query_, results_, completions_, uaf, w_qptr, d_rptr,
                         d_cptr, m_cptr, m_qptr, wpc, dpc>>]_vars

\* the engine was destroyed after a session in which the worker recomputed
\* for a typed query and a command was left on the bus
C12_Witness ==
    /\ mpc = "destroyed" /\ results_ = Freed
    /\ term # <<>>
    /\ bus # <<>>

\* ========================================================================
\* Claims about Enter (C13 under SpecEnter, C14 under Spec)
\* ========================================================================

\* the call of handle_select number i was a SelectResult(current) with no row
\* selected
Unselected(i) == enters[i].idx < 0 /\ enters[i].sel < 0

\* the code display_.select returns for corpus index c
CodeOf(c) == IF c < MaxExitCode THEN c ELSE MaxExitCode

\* C13: with exactly one result and no row selected, a SelectResult(current)
\* confirms that result at once: display_.select returns the exit code of
\* result 0, and the dispatcher stores it and stops. Stated for the runs in
\* which no freed snapshot was read.
C13_SingleResultConfirms ==
    \A i \in 1..Len(enters) :
        (uaf = {} /\ Unselected(i) /\ enters[i].count = 1) =>
            \/ enters[i].outcome = "pending" /\ i = Len(enters)
                 /\ dpc \in {"select_load", "select_confirm"}
            \/ /\ enters[i].outcome = "confirmed"
               /\ enters[i].code = CodeOf(enters[i].first)
               /\ \/ dpc = "exit_first"
                  \/ term = <<enters[i].code>>

\* the call of handle_select number i confirmed row 0 of what it saw, or is
\* about to
ConfirmsRowZero(i) ==
    \/ enters[i].outcome = "pending" /\ i = Len(enters)
         /\ dpc \in {"select_load", "select_confirm"}
    \/ /\ enters[i].outcome = "confirmed"
       /\ enters[i].code = CodeOf(enters[i].first)
       /\ \/ dpc = "exit_first"
          \/ term = <<enters[i].code>>

\* calls i and i + 1 of handle_select worked on the same results snapshot
SameResults(i) ==
    /\ enters[i + 1].snap = enters[i].snap
    /\ enters[i + 1].outcome # "pending" => enters[i + 1].read \in {0, enters[i].snap}

\* C14: with more than one result and no row selected, SelectResult(current)
\* only sets selected_index to 0 and renders: it does not confirm, stores no
\* exit code and does not stop; the next SelectResult(current), the results
\* being unchanged, confirms row 0. Stated for the runs in which no freed
\* snapshot was read.
C14_SecondEnterConfirms ==
    /\ [][(/\ uaf' = {}
           /\ Len(enters') = Len(enters) + 1
           /\ Unselected(Len(enters))' /\ enters'[Len(enters')].count > 1)
          => /\ state_'.selected_index = 0
             /\ dpc' = "render_load"
             /\ UNCHANGED <<exit_code_, running_, term, d_code>>]_vars
    /\ [](\A i \in 1..(Len(enters) - 1) :
            (/\ uaf = {}
             /\ Unselected(i) /\ enters[i].count > 1
             /\ enters[i + 1].idx < 0
             /\ SameResults(i))
            => ConfirmsRowZero(i + 1))

\* ========================================================================
\* Claims about the exit status (C15 under Spec)
\* ========================================================================

\* C15: the exit status partitions the outcomes: run() returns 0 only when the
\* terminating command was the user's cancel, never 1 for a command, and a
\* confirmed selection returns a value in 2..255.
C15_ExitStatusPartition ==
    /\ \A i \in 1..Len(enters) :
          enters[i].outcome = "confirmed" => enters[i].code \in 2..MaxExitCode
    /\ retval # <<>> =>
          /\ retval[1] = ExitSuccess => d_cmd.type = "Exit"
          /\ retval[1] # ExitError
          /\ d_cmd.type = "SelectResult" => retval[1] \in 2..MaxExitCode

\* ========================================================================
\* Claims about select, the ranking and the score (under SpecPure)
\* ========================================================================

Returned_select == call.fn = "select" /\ ret # <<>>
Returned_score == call.fn = "score" /\ ret # <<>>
Returned_rank == call.fn = "rank" /\ ret # <<>>

\* C16: select(index) with 0 <= index < result_count returns min(c, 255), c
\* being the corpus position of the record at rank row index (not the rank);
\* for every other index it returns nothing.
C16_SelectReturns ==
    Returned_select =>
        IF 0 <= call.index /\ call.index < Len(call.results)
        THEN LET c == call.results[call.index + 1].index
             IN ret[1] = <<IF c <= 255 THEN c ELSE 255>>
        ELSE ret[1] = <<>>

\* select returned 255 for rank row 1 holding corpus index 257
C16_Witness ==
    /\ Returned_select
    /\ call.index = 1 /\ Len(call.results) = 2
    /\ call.results[2].index = 257
    /\ ret[1] = <<255>>

\* the content of the record a row of the ranking stands for
ContentOf(row) == call.entries[row.index + 1].content

\* C17: the results the worker publishes are sorted: of two adjacent rows a
\* before b, a has the higher score, or the scores are equal and content(a) <=
\* content(b).
C17_ResultsSorted ==
    Returned_rank =>
        \A i \in 1..(Len(ret[1]) - 1) :
            LET a == ret[1][i]
                b == ret[1][i + 1]
            IN \/ a.score > b.score
               \/ a.score = b.score /\ ~StrLess(ContentOf(b), ContentOf(a))

\* a ranking of three rows with two scores, the two rows of equal score in
\* ascending order of different contents
C17_Witness ==
    /\ Returned_rank
    /\ Len(ret[1]) = 3
    /\ ret[1][1].score > ret[1][2].score
    /\ ret[1][2].score = ret[1][3].score
    /\ StrLess(ContentOf(ret[1][2]), ContentOf(ret[1][3]))

\* the query is empty or holds only whitespace and non-alphanumeric characters
WithoutToken(q) == \A i \in 1..Len(q) : ~IsAlnum(q[i])

\* C18: for the empty query and for a query without tokens the published
\* results hold every record of the corpus (the corpus having at most
\* MaxResults records), each with score 1, in ascending order of content.
C18_EmptyQueryRanksAll ==
    (Returned_rank /\ WithoutToken(call.query)) =>
        /\ Len(ret[1]) = Len(call.entries)
        /\ \A k \in 0..(Len(call.entries) - 1) :
              \E i \in 1..Len(ret[1]) : ret[1][i].index = k
        /\ \A i \in 1..Len(ret[1]) : ret[1][i].score = 1
        /\ \A i \in 1..(Len(ret[1]) - 1) :
              ~StrLess(ContentOf(ret[1][i + 1]), ContentOf(ret[1][i]))

\* a query of punctuation and whitespace ranked a corpus of four records
C18_Witness ==
    /\ Returned_rank
    /\ call.query # <<>> /\ WithoutToken(call.query)
    /\ Len(call.entries) = 4 /\ Len(ret[1]) = 4

\* the token occurs in the record: in its key, in one of its words or in its
\* content, case ignored
TokenMatches(entry, tok) ==
    \/ find(to_lower(entry.key), tok, 0) # npos
    \/ \E i \in 1..Len(entry.words) : find(entry.words[i], tok, 0) # npos
    \/ find(to_lower(entry.content), tok, 0) # npos

AllTokensMatch(entry, query) ==
    \A k \in 1..Len(tokenize(query)) : TokenMatches(entry, tokenize(query)[k])

\* C19: for a query with at least one token, a record has score > 0, and is
\* in the results, if and only if every token matches a tier; with a token
\* that matches no tier the score is 0; a query no record matches gives an
\* empty list. (Corpora of at most MaxResults records.)
C19_AllTokensRequired ==
    /\ (Returned_score /\ tokenize(call.query) # <<>>) =>
          /\ ret[1] > 0 <=> AllTokensMatch(call.entry, call.query)
          /\ ~AllTokensMatch(call.entry, call.query) => ret[1] = 0
    /\ (Returned_rank /\ tokenize(call.query) # <<>>) =>
          \A k \in 1..Len(call.entries) :
              (\E i \in 1..Len(ret[1]) : ret[1][i].index = k - 1)
                  <=> AllTokensMatch(call.entries[k], call.query)

\* a record in which the first token matches and the words are in sequence
\* for no prefix, scored 0 because the second token matches nothing
C19_Witness ==
    /\ Returned_score
    /\ Len(tokenize(call.query)) = 2
    /\ TokenMatches(call.entry, tokenize(call.query)[1])
    /\ ~TokenMatches(call.entry, tokenize(call.query)[2])
    /\ ret[1] = 0

\* the tier values a token reaches in a record
TiersReached(entry, tok) ==
    {KeyPrefix : x \in {1} \cap {IF starts_with(to_lower(entry.key), tok) THEN 1 ELSE 0}}
    \cup {KeyContains : x \in {1} \cap {IF find(to_lower(entry.key), tok, 0) # npos THEN 1 ELSE 0}}
    \cup {WordPrefix : i \in {j \in 1..Len(entry.words) : starts_with(entry.words[j], tok)}}
    \cup {WordContains : i \in {j \in 1..Len(entry.words) : find(entry.words[j], tok, 0) # npos}}
    \cup {Content : x \in {1} \cap {IF find(to_lower(entry.content), tok, 0) # npos THEN 1 ELSE 0}}

\* the sum over the tokens from the k-th of the highest tier each reaches
RECURSIVE SumOfHighest(_, _, _)
SumOfHighest(entry, toks, k) ==
    IF k > Len(toks) THEN 0
    ELSE MaxOf(TiersReached(entry, toks[k])) + SumOfHighest(entry, toks, k + 1)

\* the sequential bonus: for several tokens found in query order in the key,
\* else in the content
SequentialBonus(entry, toks) ==
    IF Len(toks) <= 1 THEN 0
    ELSE IF has_sequential_match(entry.key, toks) THEN 5000
    ELSE IF has_sequential_match(entry.content, toks) THEN 3000
    ELSE 0

\* C20: for a query with at least one token, the score of a matching record is
\* the sequential bonus, if any, plus the sum over the tokens of the highest
\* tier value the token reaches; a token reaching several tiers or matching
\* several words counts once.
C20_ScoreIsBonusPlusMaxima ==
    (/\ Returned_score
     /\ tokenize(call.query) # <<>>
     /\ AllTokensMatch(call.entry, call.query)) =>
        ret[1] = SequentialBonus(call.entry, tokenize(call.query))
                 + SumOfHighest(call.entry, tokenize(call.query), 1)

\* a two-token query whose tokens each reach several tiers, with the bonus of
\* the key
C20_Witness ==
    /\ Returned_score
    /\ Len(tokenize(call.query)) = 2
    /\ \A k \in 1..2 :
          Cardinality(TiersReached(call.entry, tokenize(call.query)[k])) >= 2
    /\ ret[1] > 5000

\* the tokens occur in the lowercased text in query order, each occurrence
\* starting at or after the end of the one before
OccurInOrder(text, toks) ==
    \E at \in [1..Len(toks) -> 0..Len(text)] :
        /\ \A k \in 1..Len(toks) :
              /\ at[k] + Len(toks[k]) <= Len(text)
              /\ SubSeq(to_lower(text), at[k] + 1, at[k] + Len(toks[k])) = toks[k]
        /\ \A k \in 1..(Len(toks) - 1) : at[k + 1] >= at[k] + Len(toks[k])

\* what the score holds beyond the tokens' tiers
BonusPart(entry, query) == ret[1] - SumOfHighest(entry, tokenize(query), 1)

\* C21: the sequential bonus is added only for two or more tokens that occur
\* in query order, without overlap, in the lowercased text: 5000 when they do
\* in the key, otherwise 3000 when they do in the content, and never both.
C21_SequentialBonus ==
    (/\ Returned_score
     /\ tokenize(call.query) # <<>>
     /\ AllTokensMatch(call.entry, call.query)) =>
        LET toks == tokenize(call.query)
        IN BonusPart(call.entry, call.query) =
              IF Len(toks) >= 2 /\ OccurInOrder(call.entry.key, toks) THEN 5000
              ELSE IF Len(toks) >= 2 /\ OccurInOrder(call.entry.content, toks) THEN 3000
              ELSE 0

\* a record whose key and content both hold the two tokens in order got the
\* bonus of the key only
C21_Witness ==
    /\ Returned_score
    /\ Len(tokenize(call.query)) = 2
    /\ OccurInOrder(call.entry.key, tokenize(call.query))
    /\ OccurInOrder(call.entry.content, tokenize(call.query))
    /\ BonusPart(call.entry, call.query) = 5000

\* C22: for every record and every query that is a prefix of the record's key
\* and has at least one token, the score is above 0, also for keys that hold
\* punctuation or other non-alphanumeric characters.
C22_KeyPrefixScores ==
    (/\ Returned_score
     /\ starts_with(call.entry.key, call.query)
     /\ tokenize(call.query) # <<>>) =>
        ret[1] > 0

Ranked_doom == Returned_rank /\ call.entries = DoomCorpus /\ call.query = Query_doom
Ranked_1994id == Returned_rank /\ call.entries = DoomCorpus /\ call.query = Query_1994id

\* C23: on the corpus of DOOM and DOOM II the query doom returns both records
\* with the same KeyPrefix score, DOOM first by ascending content; the query
\* 1994 id returns DOOM II alone, with the SequentialContent bonus.
C23_DoomExample ==
    /\ Ranked_doom =>
          /\ Len(ret[1]) = 2
          /\ ret[1][1] = [index |-> 0, score |-> 2000]
          /\ ret[1][2] = [index |-> 1, score |-> 2000]
    /\ Ranked_1994id =>
          /\ Len(ret[1]) = 1
          /\ ret[1][1].index = 1
          /\ ret[1][1].score
                - SumOfHighest(call.entries[2], tokenize(call.query), 1) = 3000
          /\ ~AllTokensMatch(call.entries[1], call.query)

\* the corpus was ranked for 1994 id and one record came back
C23_Witness == Ranked_1994id /\ Len(ret[1]) = 1

\* ========================================================================
\* Claims about completion (under SpecPure)
\* ========================================================================

Returned_completion == call.fn = "completion" /\ ret # <<>>

\* C24: if get_completion() returned c while the candidates of the current
\* query were exactly one, then with UpdateQuery(c) applied get_completion()
\* returns nothing, before and after the worker recomputed; for every corpus,
\* keys with spaces included.
C24_UniqueCompletionSettles ==
    (/\ Returned_completion
     /\ call.prev.taken
     /\ call.prev.comps = find_completions(call.entries, call.prev.query)
     /\ Len(call.prev.comps) = 1) =>
        ret[1] = Nullopt

\* the position of the last space or tab of q, 0 when it has none
LastBlank(q) ==
    IF \E i \in 1..Len(q) : IsSpace(q[i])
    THEN CHOOSE i \in 1..Len(q) :
            IsSpace(q[i]) /\ \A j \in (i + 1)..Len(q) : ~IsSpace(q[j])
    ELSE 0

\* the length of the longest case-insensitive common prefix of the candidates
CommonLength(comps) ==
    IF comps = <<>> THEN 0
    ELSE MaxOf({n \in 0..Len(comps[1]) :
                  \A i \in 1..Len(comps) :
                      /\ Len(comps[i]) >= n
                      /\ \A j \in 1..n :
                            ToLowerChar(comps[i][j]) = ToLowerChar(comps[1][j])})

\* C25: a string c that get_completion() returns for the query q is longer
\* than q, begins with q up to and including its last space or tab, and goes
\* on, case ignored, with the last word of q, also when the snapshot is of an
\* older query; for q empty, q ending in whitespace, or a common prefix of the
\* candidates not longer than the last word, nothing is returned.
C25_CompletionExtendsQuery ==
    Returned_completion =>
        LET q == call.query
            cut == LastBlank(q)
        IN /\ ret[1] # Nullopt =>
                 LET c == ret[1][1]
                 IN /\ Len(c) > Len(q)
                    /\ SubSeq(c, 1, cut) = SubSeq(q, 1, cut)
                    /\ starts_with(to_lower(SubSeq(c, cut + 1, Len(c))),
                                   to_lower(SubSeq(q, cut + 1, Len(q))))
           /\ (\/ q = <<>>
               \/ cut = Len(q)
               \/ CommonLength(call.comps) <= Len(q) - cut) =>
                 ret[1] = Nullopt

\* a completion for a two-word query whose last word is in the other case
C25_Witness ==
    /\ Returned_completion
    /\ call.query = <<"x", " ", "B">>
    /\ ret[1] = <<<<"x", " ", "b", "e", " ", "b", "e">>>>

\* ========================================================================
\* Claims about the layout and the input decoder (under SpecPure)
\* ========================================================================

Returned_measure == call.fn = "measure" /\ ret # <<>>

\* C26: for every terminal height h >= 0 a measure yields max_visible_results
\* >= 2: (h - 6) div 3 when h > 12 and 2 otherwise, with a header of 3 lines,
\* a footer of 3 lines and 3 lines per result; never 0.
C26_VisibleAtLeastTwo ==
    Returned_measure =>
        /\ ret[1].max_visible_results =
              IF call.height > 12 THEN (call.height - 6) \div 3 ELSE 2
        /\ ret[1].max_visible_results >= 2
        /\ ret[1].header_lines = 3
        /\ ret[1].footer_lines = 3
        /\ ret[1].lines_per_result = 3

\* a measure of a terminal of height 0 against metrics measured at height 20
C26_Witness ==
    /\ Returned_measure
    /\ call.height = 0 /\ call.metrics.terminal_height = 20
    /\ ret[1].max_visible_results = 2

Returned_poll == call.fn = "poll" /\ ret # <<>>

\* input starts with the bytes of the key sequence
StartsWith(input, key) ==
    Len(input) >= Len(key) /\ SubSeq(input, 1, Len(key)) = key

\* the command of each recognized arrow or page sequence
SequenceCommand(input) ==
    IF StartsWith(input, KeyUp) THEN MoveSelection(-1)
    ELSE IF StartsWith(input, KeyDown) THEN MoveSelection(1)
    ELSE IF StartsWith(input, KeyPageUp) THEN PageScroll(TRUE)
    ELSE IF StartsWith(input, KeyPageDown) THEN PageScroll(FALSE)
    ELSE NoCommand

Recognized(input) == SequenceCommand(input) # NoCommand

\* C27: a poll that reads ESC [ A or ESC [ B emits MoveSelection(-1) or
\* MoveSelection(+1), one that reads ESC [ 5 ~ or ESC [ 6 ~ emits PageScroll(up)
\* or PageScroll(down), and after each of them nothing is left of the buffered
\* input, so that a burst of repeated keys gives one command; the query is
\* left alone
C27_SequenceFlushes ==
    (Returned_poll /\ Recognized(call.input)) =>
        /\ ret[1].cmd = SequenceCommand(call.input)
        /\ ret[1].rest = <<>>
        /\ ret[1].query = call.query

\* a burst of MaxBurst page-down keys has given one PageScroll(down) and an
\* empty buffer
C27_Witness ==
    /\ Returned_poll
    /\ call.input = Repeat(KeyPageDown, MaxBurst)
    /\ ret[1].cmd = PageScroll(FALSE)
    /\ ret[1].rest = <<>>

\* C28: after ESC, a poll that finds no second byte emits Exit(success); in
\* every other case that is not a recognized arrow or page sequence it emits no
\* command and leaves no pending input
C28_UnrecognizedFlushes ==
    (Returned_poll /\ Head(call.input) = "ESC" /\ ~Recognized(call.input)) =>
        IF Len(call.input) = 1
        THEN ret[1].cmd = Exit(ExitSuccess)
        ELSE ret[1].cmd = NoCommand /\ ret[1].rest = <<>>

\* the first byte of the input is one that edits the query
EditsQuery(input, q, completion) ==
    \/ Head(input) \in PrintableBytes
    \/ Head(input) \in {"DEL", "BS"} /\ q # <<>>
    \/ Head(input) = "TAB" /\ completion # Nullopt

\* the query after the edit of the first byte
EditedQuery(input, q, completion) ==
    IF Head(input) = "TAB" THEN completion[1]
    ELSE IF Head(input) \in {"DEL", "BS"} THEN SubSeq(q, 1, Len(q) - 1)
    ELSE Append(q, Head(input))

\* C29 as stated: poll emits UpdateQuery exactly when it changes the query
\* buffer, and the command carries the new text
C29_UpdateQueryIffChanged ==
    Returned_poll =>
        /\ (ret[1].cmd.type = "UpdateQuery") <=> (ret[1].query # call.query)
        /\ ret[1].cmd.type = "UpdateQuery" => ret[1].cmd.query = ret[1].query

\* C29: a printable byte appends itself, 0x7F or 0x08 removes the last
\* character of a non-empty query, Tab replaces the query by the completion
\* when there is one, and each of them emits UpdateQuery with the new text;
\* every other byte, backspace on an empty query and Tab without a completion
\* leave the query unchanged and emit no UpdateQuery
C29_QueryEdits ==
    Returned_poll =>
        IF EditsQuery(call.input, call.query, call.completion)
        THEN /\ ret[1].query = EditedQuery(call.input, call.query, call.completion)
             /\ ret[1].cmd = UpdateQuery(ret[1].query)
        ELSE /\ ret[1].query = call.query
             /\ ret[1].cmd.type # "UpdateQuery"

\* Tab has replaced the buffer "a" by the completion "ab" and emitted it
C29_Witness ==
    /\ Returned_poll
    /\ Head(call.input) = "TAB"
    /\ call.query = S1("a")
    /\ ret[1].cmd = UpdateQuery(<<"a", "b">>)
    /\ ret[1].query = <<"a", "b">>

\* C30: the dispatcher's processing of UpdateQuery{q} stores q in the query
\* buffer, hands q to update_query (which publishes it and raises the
\* recompute flag) and does nothing else: no frame is rendered and the scroll
\* offset, the selection and the cached metrics stay as they are
C30_UpdateQueryOnly ==
    [][/\ (dpc = "loop" /\ dpc' = "update_exchange") =>
            (app_query' = d_cmd'.query /\ UNCHANGED viewvars)
       /\ (dpc = "update_exchange" /\ dpc' = "update_flag") =>
            (query_'.val = d_cmd.query /\ UNCHANGED viewvars)
       /\ (dpc = "update_flag" /\ dpc' = "loop") =>
            (search_needed_' /\ UNCHANGED viewvars)]_vars

\* the dispatcher's handler copies the results from a snapshot that is still
\* the published one
ReadsLive == d_rptr.id = results_.id

\* the selection lies in the window of max_visible rows from scroll_offset
Visible(selected, scroll_offset, max_visible) ==
    scroll_offset <= selected /\ selected < scroll_offset + max_visible

\* the scroll offset moved only because the selection was outside the window,
\* and to the nearest offset that shows it
ScrolledMinimally(old, new) ==
    LET max_visible == old.metrics.max_visible_results
        selected == new.selected_index
    IN /\ new.scroll_offset # old.scroll_offset =>
            /\ ~Visible(selected, old.scroll_offset, max_visible)
            /\ new.scroll_offset = IF selected < old.scroll_offset THEN selected
                                   ELSE selected - max_visible + 1
       /\ max_visible > 0 => Visible(selected, new.scroll_offset, max_visible)

\* C31: handle_move with non-empty results sets selected_index to 0 when no
\* row was selected and otherwise to selected_index + delta brought into
\* 0 .. result_count - 1, moves scroll_offset only when the selection is
\* outside the window and then by the least amount, and goes on to render;
\* with empty results it changes nothing and does not render
C31_MoveSelection ==
    [][(dpc = "move" /\ dpc' # "move" /\ ReadsLive) =>
        LET result_count == Len(d_rptr.val)
            moved == state_.selected_index + d_cmd.delta
        IN IF result_count = 0
           THEN UNCHANGED <<state_, frame>> /\ dpc' = "loop"
           ELSE /\ state_'.selected_index =
                      IF state_.selected_index < 0 THEN 0
                      ELSE IF moved < 0 THEN 0
                      ELSE IF moved > result_count - 1 THEN result_count - 1
                      ELSE moved
                /\ ScrolledMinimally(state_, state_')
                /\ state_'.metrics = state_.metrics
                /\ dpc' = "render_load"]_vars

\* a move down to the third row has scrolled a window of two rows by one
C31_Witness ==
    /\ dpc = "render_load" /\ d_cmd = MoveSelection(1) /\ ReadsLive
    /\ state_.selected_index = 2
    /\ state_.scroll_offset = 1
    /\ state_.metrics.max_visible_results = 2

\* C32: handle_page_scroll moves selected_index by max(1, max_visible - 1)
\* rows up or down and brings the result into 0 .. result_count - 1 in both
\* directions, whatever the selection was before, then scrolls minimally to
\* keep it visible and goes on to render; with empty results or max_visible = 0
\* it changes nothing
C32_PageScroll ==
    [][(dpc = "page" /\ dpc' # "page" /\ ReadsLive /\ uaf = {}) =>
        LET result_count == Len(d_rptr.val)
            max_visible == state_.metrics.max_visible_results
            page == IF max_visible - 1 > 1 THEN max_visible - 1 ELSE 1
            moved == IF d_cmd.up THEN state_.selected_index - page
                     ELSE state_.selected_index + page
        IN IF result_count = 0 \/ max_visible = 0
           THEN UNCHANGED <<state_, frame>> /\ dpc' = "loop"
           ELSE /\ state_'.selected_index =
                      IF moved < 0 THEN 0
                      ELSE IF moved > result_count - 1 THEN result_count - 1
                      ELSE moved
                /\ ScrolledMinimally(state_, state_')
                /\ dpc' = "render_load"]_vars

\* C33: a SelectResult whose target is no row of the results select copies
\* (there are none, or the target lies outside 0 .. result_count - 1) confirms
\* nothing: select returns nothing, exit_code_ and running_ stay as they are,
\* so do selected_index and scroll_offset, and the dispatcher returns to its
\* loop
C33_InvalidSelect ==
    [][(/\ dpc = "select_confirm" /\ dpc' # "select_confirm" /\ ReadsLive
        /\ ~(d_target >= 0 /\ d_target < Len(d_rptr.val))) =>
            /\ enters'[Len(enters')].outcome = "nothing"
            /\ UNCHANGED <<exit_code_, running_, term, state_>>
            /\ running_
            /\ dpc' = "loop"]_vars

\* Enter on the second row, kept selected from a longer ranking while the
\* results hold one row, has confirmed nothing
C33_Witness ==
    /\ dpc = "loop" /\ running_ /\ term = <<>> /\ uaf = {}
    /\ Len(enters) = 1
    /\ enters[1].outcome = "nothing" /\ enters[1].sel = 1 /\ enters[1].count = 1
    /\ enters[1].read = enters[1].snap

\* C34: every frame rendered with non-empty results is rendered with
\* scroll_offset < result_count, and its footer shows the range first =
\* scroll_offset + 1 to last = scroll_offset + display_count with
\* 1 <= first <= last <= result_count
C34_FooterRange ==
    [][(dpc = "render_finish" /\ dpc' = "loop" /\ frame.count > 0 /\ uaf = {}) =>
        LET footer == render_footer(
                          state_.scroll_offset,
                          render_display_count(state_'.metrics.max_visible_results,
                                               frame.count, state_.scroll_offset),
                          frame.count)
        IN /\ state_.scroll_offset < frame.count
           /\ 1 <= footer.first
           /\ footer.first <= footer.last
           /\ footer.last <= footer.total]_vars

Returned_ranking == call.fn \in {"rank", "rank_capped"} /\ ret # <<>>

\* record a (a corpus index) ranks strictly before the row b
Outranks(entries, q, a, b) ==
    LET sa == score(entries[a + 1], q)
    IN \/ sa > b.score
       \/ sa = b.score /\ StrLess(entries[a + 1].content, entries[b.index + 1].content)

\* C35: a published ranking lists records of the corpus, none twice, each with
\* its score for the query, which is > 0; it lists every record of score > 0
\* when they are no more than the cap, and otherwise as many rows as the cap
\* allows, none of the omitted records ranking before a listed one
C35_ResultsExact ==
    Returned_ranking =>
        LET rs == ret[1]
            n == Len(call.entries)
            matching == {k \in 0..(n - 1) : score(call.entries[k + 1], call.query) > 0}
            listed == {rs[i].index : i \in 1..Len(rs)}
        IN /\ \A i \in 1..Len(rs) :
                /\ rs[i].index >= 0 /\ rs[i].index < n
                /\ rs[i].score > 0
                /\ rs[i].score = score(call.entries[rs[i].index + 1], call.query)
           /\ \A i, j \in 1..Len(rs) : i # j => rs[i].index # rs[j].index
           /\ IF Cardinality(matching) <= call.limit
              THEN listed = matching
              ELSE /\ Len(rs) = call.limit
                   /\ \A k \in matching \ listed : \A i \in 1..Len(rs) :
                         ~Outranks(call.entries, call.query, k, rs[i])

\* four records match, two are listed and two of lower rank are omitted
C35_Witness ==
    /\ Returned_ranking
    /\ call.limit = 2 /\ Len(ret[1]) = 2
    /\ Cardinality({k \in 1..Len(call.entries) :
                       score(call.entries[k], call.query) > 0}) = 4
    /\ ret[1][1].score > ret[1][2].score

\* both snapshots were computed by the same recompute, from one query (or
\* both are the empty snapshots of the constructor)
SameRecompute ==
    /\ completions_.id = results_.id
    /\ \/ results_.id = 1 /\ results_.val = <<>> /\ completions_.val = <<>>
       \/ \E q \in TabulatedTexts :
             results_.val = Ranking(q) /\ completions_.val = Candidates(q)

\* C36: the published completions come from the recompute that produced the
\* published results or from the one just before it, never from a later one
\* or an older one; while the worker is idle both come from the same recompute
\* and query
C36_SnapshotsAligned ==
    /\ completions_.id \in {results_.id, results_.id - 1}
    /\ completions_.id = results_.id - 1 =>
          /\ wpc = "publish_completions"
          /\ results_.val = Ranking(w_q)
    /\ wpc # "publish_completions" => SameRecompute

\* between the two exchanges of the second recompute the results are those of
\* the new query and the completions those of the first recompute
C36_Witness ==
    /\ wpc = "publish_completions" /\ uaf = {}
    /\ results_.id = 3 /\ completions_.id = 2
    /\ w_q = S1("a")
    /\ results_.val = Ranking(S1("a")) /\ completions_.val = Candidates(<<>>)

\* every key is typed, every command is processed and the worker is idle
TypedAndProcessed ==
    /\ keys_left = 0 /\ bus = <<>> /\ dpc = "loop"
    /\ ~search_needed_ /\ wpc = "poll"

\* C37: once the characters c1..cn were typed from an empty query and all
\* commands are processed, the engine's published query and the input loop's
\* query buffer both hold c1..cn
C37_TypedTextArrives ==
    (TypedAndProcessed /\ uaf = {}) =>
        /\ app_query = TypedText
        /\ query_.val = TypedText


\* the row a handle_select call resolves to: the command's index, else the
\* selected row, else row 0 (the single-result case)
TargetRow(e) == IF e.idx >= 0 THEN e.idx ELSE IF e.sel >= 0 THEN e.sel ELSE 0

\* the most recently rendered frame showed the record with exit code `code`
\* at row `row`
FrameShowed(row, code) ==
    /\ row + 1 \in 1..Len(frame.rows)
    /\ CodeOf(frame.rows[row + 1].index) = code

\* C38: when a SelectResult confirms, the confirmed record is the one the most
\* recently rendered frame showed at the selected row (row 0 in the
\* single-result case), also when the worker published in between, and the two
\* reads of the results made by the call (handle_select's and
\* display_.select's) are of the same snapshot. Stated for the runs in which no
\* freed snapshot was read.
C38_ConfirmsShownRecord ==
    \A i \in 1..Len(enters) :
        (uaf = {} /\ enters[i].outcome = "confirmed") =>
            /\ enters[i].read = enters[i].snap
            /\ FrameShowed(TargetRow(enters[i]), enters[i].code)


\* the worker holds its copy q of the query and is computing or publishing
\* the snapshots for it
Recomputing == wpc \in {"publish_results", "publish_completions", "enqueue"}

\* C39: every results snapshot the worker publishes is the ranking for a text
\* that was the published query after the flag was last raised (the string
\* the worker loaded after taking the flag), never for a text never passed to
\* update_query; the worker recomputes at most once per raised flag, so the
\* recomputes never outnumber the update_query calls.
C39_RecomputeForPublishedQuery ==
    /\ Recomputing => w_q = w_qptr.val
    /\ wpc \in {"publish_completions", "enqueue"} => results_.val = Ranking(w_q)
    /\ results_.id <= query_.id


\* C40: in every state of the dispatcher, no row selected (selected_index =
\* -1) implies scroll_offset = 0: the view is scrolled away from the top only
\* while a row is selected
C40_UnselectedAtTop ==
    state_.selected_index = -1 => state_.scroll_offset = 0

\* a RefreshDisplay has just reset a view whose last frame was drawn by a
\* move or page handler, with a row selected, over several results
C40_Witness ==
    /\ dpc = "render_load" /\ d_cmd.type = "RefreshDisplay"
    /\ frame.cmd \in {"MoveSelection", "PageScroll"} /\ frame.count > 1
    /\ state_.selected_index = -1 /\ state_.scroll_offset = 0

============================================================================
